---- MODULE Spec2Model ----
(***************************************************************************)
(* A model of the sensorguard core: the alert confirmation state machine   *)
(* (backend/alert_engine.py), the windowed hysteresis decider              *)
(* (backend/engine/window_policy.py), group fusion                         *)
(* (backend/engine/fusion.py, sensor_groups.py) and the typed nullity      *)
(* algebra underneath it (backend/engine/tna.py).                          *)
(*                                                                         *)
(* Strings the code builds by formatting are sequences of one-character    *)
(* strings.  Timestamps are seconds since an epoch; a value below zero     *)
(* stands for a string that is not a timestamp.  Floats are IEEE 754       *)
(* binary64 numbers and are rounded as Python rounds them.                 *)
(***************************************************************************)
EXTENDS Integers, Sequences, FiniteSets, TLC

VARIABLES
    alert_state,    \* table alert_state: a set of rows
    alert_events,   \* table alert_events: the rows in insertion order
    fired,          \* what the last update() returned
    call,           \* the arguments and outcome of the last update()
    in_flight,      \* per process, the update() between its query and its commit
    suppressed,     \* history: the keys whose confirmation was last skipped by
                    \* the cooldown and that have not been cleared since
    fz_in,          \* the arguments of a call of a function of the engine
    fz_out,         \* its result
    win_params,     \* WindowedDecider.params
    win_state,      \* WindowedDecider._state: group name -> GroupWindowState
    win_out,        \* what the last WindowedDecider.update returned
    win_raw         \* the raw modes of the group since construction, newest last,
                    \* as far back as the properties look

alertVars == <<alert_state, alert_events, fired, call, in_flight, suppressed>>
fuseVars == <<fz_in, fz_out>>
winVars == <<win_params, win_state, win_out, win_raw>>
vars == <<alert_state, alert_events, fired, call, in_flight, suppressed, fz_in,
          fz_out, win_params, win_state, win_out, win_raw>>

(***************************************************************************)
(* Generic helpers                                                         *)
(***************************************************************************)
Range(s) == {s[i] : i \in 1..Len(s)}

Front(s) == SubSeq(s, 1, Len(s) - 1)

Last(s) == s[Len(s)]

StartsWith(s, p) == Len(p) <= Len(s) /\ SubSeq(s, 1, Len(p)) = p

SeqsUpTo(S, n) == UNION {[1..m -> S] : m \in 0..n}

\* str(n) of a non-negative integer, as a sequence of characters
RECURSIVE IntToStr(_)
IntToStr(n) ==
    LET digit == <<"0", "1", "2", "3", "4", "5", "6", "7", "8", "9">>[(n % 10) + 1]
    IN IF n < 10 THEN <<digit>> ELSE IntToStr(n \div 10) \o <<digit>>

(***************************************************************************)
(* Python floats: IEEE 754 binary64, round to nearest, ties to even        *)
(***************************************************************************)
\* Natural numbers of any size are sequences of limbs, least significant
\* first and without leading zero limbs; <<>> is 0
LimbBits == 15
LimbBase == 32768

Pow2(k) == 2 ^ k

RECURSIVE NatTrim(_)
NatTrim(a) == IF a # <<>> /\ a[Len(a)] = 0 THEN NatTrim(SubSeq(a, 1, Len(a) - 1)) ELSE a

RECURSIVE NatOfInt(_)
NatOfInt(n) == IF n = 0 THEN <<>> ELSE <<n % LimbBase>> \o NatOfInt(n \div LimbBase)

LowLimb(a) == IF a = <<>> THEN 0 ELSE a[1]

HighLimbs(a) == IF a = <<>> THEN <<>> ELSE Tail(a)

RECURSIVE NatAddCarry(_, _, _)
NatAddCarry(a, b, carry) ==
    IF a = <<>> /\ b = <<>> THEN (IF carry = 0 THEN <<>> ELSE <<carry>>)
    ELSE LET s == LowLimb(a) + LowLimb(b) + carry
         IN <<s % LimbBase>> \o NatAddCarry(HighLimbs(a), HighLimbs(b), s \div LimbBase)

NatAdd(a, b) == NatAddCarry(a, b, 0)

\* a - b for a >= b
RECURSIVE NatSubBorrow(_, _, _)
NatSubBorrow(a, b, borrow) ==
    IF a = <<>> THEN <<>>
    ELSE LET s == a[1] - LowLimb(b) - borrow
         IN <<s % LimbBase>> \o NatSubBorrow(Tail(a), HighLimbs(b), IF s < 0 THEN 1 ELSE 0)

NatSub(a, b) == NatTrim(NatSubBorrow(a, b, 0))

\* -1, 0 or 1 as a is below, equal to or above b
RECURSIVE NatCmpFrom(_, _, _)
NatCmpFrom(a, b, i) ==
    IF i = 0 THEN 0
    ELSE IF a[i] < b[i] THEN -1
    ELSE IF a[i] > b[i] THEN 1
    ELSE NatCmpFrom(a, b, i - 1)

NatCmp(a, b) ==
    IF Len(a) < Len(b) THEN -1
    ELSE IF Len(a) > Len(b) THEN 1
    ELSE NatCmpFrom(a, b, Len(a))

\* a * k + carry for one limb k
RECURSIVE NatMulLimb(_, _, _)
NatMulLimb(a, k, carry) ==
    IF a = <<>> THEN (IF carry = 0 THEN <<>> ELSE <<carry>>)
    ELSE LET p == a[1] * k + carry
         IN <<p % LimbBase>> \o NatMulLimb(Tail(a), k, p \div LimbBase)

RECURSIVE NatMulFrom(_, _)
NatMulFrom(a, b) ==
    IF b = <<>> THEN <<>>
    ELSE NatAdd(NatMulLimb(a, b[1], 0), <<0>> \o NatMulFrom(a, Tail(b)))

NatMul(a, b) == NatTrim(NatMulFrom(a, b))

Zeros(n) == [i \in 1..n |-> 0]

\* a * 2^k
NatShl(a, k) ==
    IF a = <<>> THEN <<>>
    ELSE Zeros(k \div LimbBits) \o NatTrim(NatMulLimb(a, Pow2(k % LimbBits), 0))

\* a \div 2^k
NatShr(a, k) ==
    LET limbs == k \div LimbBits
        bits == k % LimbBits
        rest == IF limbs >= Len(a) THEN <<>> ELSE SubSeq(a, limbs + 1, Len(a))
    IN NatTrim([i \in 1..Len(rest) |->
                   (rest[i] \div Pow2(bits))
                     + (IF i < Len(rest) THEN rest[i + 1] % Pow2(bits) ELSE 0)
                         * Pow2(LimbBits - bits)])

\* Bit i of a, bit 0 the least significant
NatBit(a, i) ==
    IF i \div LimbBits >= Len(a) THEN 0
    ELSE (a[i \div LimbBits + 1] \div Pow2(i % LimbBits)) % 2

\* Whether one of the k lowest bits of a is set
NatLowBitsSet(a, k) ==
    \/ \E i \in 1..(k \div LimbBits) : i <= Len(a) /\ a[i] # 0
    \/ /\ k \div LimbBits < Len(a)
       /\ a[k \div LimbBits + 1] % Pow2(k % LimbBits) # 0

RECURSIVE IntBitLen(_)
IntBitLen(n) == IF n = 0 THEN 0 ELSE 1 + IntBitLen(n \div 2)

NatBitLen(a) ==
    IF a = <<>> THEN 0 ELSE LimbBits * (Len(a) - 1) + IntBitLen(a[Len(a)])

RECURSIVE IntTrailingZeros(_)
IntTrailingZeros(n) == IF n % 2 = 1 THEN 0 ELSE 1 + IntTrailingZeros(n \div 2)

\* The number of zero bits below the lowest set bit of a # 0
RECURSIVE NatTrailingZeros(_)
NatTrailingZeros(a) ==
    IF a[1] # 0 THEN IntTrailingZeros(a[1])
    ELSE LimbBits + NatTrailingZeros(Tail(a))

\* Quotient and remainder of a by one limb d, from limb i down; q and r are
\* those of the limbs above
RECURSIVE NatDivLimb(_, _, _, _, _)
NatDivLimb(a, d, i, q, r) ==
    IF i = 0 THEN [q |-> NatTrim(q), r |-> NatOfInt(r)]
    ELSE NatDivLimb(a, d, i - 1, <<(r * LimbBase + a[i]) \div d>> \o q,
                    (r * LimbBase + a[i]) % d)

\* The largest digit from acc on, trying the bits from bit down, whose
\* product with b is at most cur
RECURSIVE NatQuotientDigit(_, _, _, _)
NatQuotientDigit(cur, b, bit, acc) ==
    IF bit < 0 THEN acc
    ELSE IF NatCmp(NatMulLimb(b, acc + Pow2(bit), 0), cur) <= 0
    THEN NatQuotientDigit(cur, b, bit - 1, acc + Pow2(bit))
    ELSE NatQuotientDigit(cur, b, bit - 1, acc)

\* Quotient and remainder of a by b of several limbs, from limb i down
RECURSIVE NatDivLimbs(_, _, _, _, _)
NatDivWithDigit(a, b, i, q, cur, digit) ==
    NatDivLimbs(a, b, i - 1, <<digit>> \o q, NatSub(cur, NatMulLimb(b, digit, 0)))

NatDivWithCurrent(a, b, i, q, cur) ==
    NatDivWithDigit(a, b, i, q, cur, NatQuotientDigit(cur, b, LimbBits - 1, 0))

NatDivLimbs(a, b, i, q, r) ==
    IF i = 0 THEN [q |-> NatTrim(q), r |-> r]
    ELSE NatDivWithCurrent(a, b, i, q, NatTrim(<<a[i]>> \o r))

\* Quotient and remainder of a by b # 0
NatDivMod(a, b) ==
    IF Len(b) = 1 THEN NatDivLimb(a, b[1], Len(a), <<>>, 0)
    ELSE NatDivLimbs(a, b, Len(a), <<>>, <<>>)

\* A float: the number s * m * 2^e with m odd, or zero, an infinity or NaN.
\* The sign of a zero is not kept.
FloatZero == [k |-> "num", s |-> 1, m |-> <<>>, e |-> 0]
FloatInf(s) == [k |-> "inf", s |-> s, m |-> <<>>, e |-> 0]
FloatNaN == [k |-> "nan", s |-> 1, m |-> <<>>, e |-> 0]

MantissaBits == 53
MaxExponent == 1023
MinExponent == -1074

Larger(a, b) == IF a >= b THEN a ELSE b

\* The float s * m * 2^e when m has at most 53 bits and e >= MinExponent
FloatOfOdd(s, m, e, zeros) == [k |-> "num", s |-> s, m |-> NatShr(m, zeros), e |-> e + zeros]

FloatOf(s, m, e) ==
    IF m = <<>> THEN FloatZero
    ELSE IF NatBitLen(m) + e - 1 > MaxExponent THEN FloatInf(s)
    ELSE FloatOfOdd(s, m, e, NatTrailingZeros(m))

\* m \div 2^shift rounded to nearest, a tie to even; sticky says that the
\* number rounded lies above m
NatRoundShift(m, shift, kept, sticky) ==
    IF NatBit(m, shift - 1) = 1
         /\ (sticky \/ NatLowBitsSet(m, shift - 1) \/ NatBit(kept, 0) = 1)
    THEN NatAdd(kept, <<1>>)
    ELSE kept

\* The float nearest to s * (m + f) * 2^e, where 0 < f < 1 if sticky and
\* f = 0 if not; unit is the exponent of the last bit it may keep
FloatRoundTo(s, m, e, sticky, unit) ==
    IF unit <= e THEN FloatOf(s, m, e)
    ELSE FloatOf(s, NatRoundShift(m, unit - e, NatShr(m, unit - e), sticky), unit)

FloatRound(s, m, e, sticky) ==
    FloatRoundTo(s, m, e, sticky, Larger(NatBitLen(m) + e - MantissaBits, MinExponent))

\* float(n) of an integer
FloatOfInt(n) == FloatRound(IF n < 0 THEN -1 ELSE 1, NatOfInt(IF n < 0 THEN -n ELSE n), 0, FALSE)

FloatIsZero(a) == a.k = "num" /\ a.m = <<>>

FloatNeg(a) == IF a.k = "nan" \/ FloatIsZero(a) THEN a ELSE [a EXCEPT !.s = -a.s]

FloatAbs(a) == [a EXCEPT !.s = 1]

\* s_a * m_a * 2^e + s_b * m_b * 2^e, rounded
FloatAddMantissas(sa, ma, sb, mb, e) ==
    IF sa = sb THEN FloatRound(sa, NatAdd(ma, mb), e, FALSE)
    ELSE IF NatCmp(ma, mb) = 0 THEN FloatZero
    ELSE IF NatCmp(ma, mb) > 0 THEN FloatRound(sa, NatSub(ma, mb), e, FALSE)
    ELSE FloatRound(sb, NatSub(mb, ma), e, FALSE)

\* The position above the highest bit of a finite float that is not zero
FloatTop(a) == NatBitLen(a.m) + a.e

\* a + b of two finite floats whose bits overlap or lie close
FloatAddAligned(a, b, e) ==
    FloatAddMantissas(a.s, NatShl(a.m, a.e - e), b.s, NatShl(b.m, b.e - e), e)

\* a + b where |b| is below a quarter of the last bit of a: b only says on
\* which side of a the sum lies
FloatAddTiny(a, b) ==
    LET wide == NatShl(a.m, MantissaBits + 4 - NatBitLen(a.m))
        e == a.e - (MantissaBits + 4 - NatBitLen(a.m))
    IN IF a.s = b.s THEN FloatRound(a.s, wide, e, TRUE)
       ELSE FloatRound(a.s, NatSub(wide, <<1>>), e, TRUE)

\* a + b of two finite floats that are not zero
FloatAddFinite(a, b) ==
    IF FloatTop(b) < FloatTop(a) - (MantissaBits + 3) THEN FloatAddTiny(a, b)
    ELSE IF FloatTop(a) < FloatTop(b) - (MantissaBits + 3) THEN FloatAddTiny(b, a)
    ELSE FloatAddAligned(a, b, IF a.e <= b.e THEN a.e ELSE b.e)

\* a + b
FloatAdd(a, b) ==
    IF a.k = "nan" \/ b.k = "nan" THEN FloatNaN
    ELSE IF a.k = "inf" /\ b.k = "inf" THEN (IF a.s = b.s THEN a ELSE FloatNaN)
    ELSE IF a.k = "inf" THEN a
    ELSE IF b.k = "inf" THEN b
    ELSE IF FloatIsZero(a) THEN b
    ELSE IF FloatIsZero(b) THEN a
    ELSE FloatAddFinite(a, b)

\* a - b
FloatSub(a, b) == FloatAdd(a, FloatNeg(b))

\* a * b
FloatMul(a, b) ==
    IF a.k = "nan" \/ b.k = "nan" THEN FloatNaN
    ELSE IF a.k = "inf" \/ b.k = "inf"
    THEN (IF FloatIsZero(a) \/ FloatIsZero(b) THEN FloatNaN ELSE FloatInf(a.s * b.s))
    ELSE IF FloatIsZero(a) \/ FloatIsZero(b) THEN FloatZero
    ELSE FloatRound(a.s * b.s, NatMul(a.m, b.m), a.e + b.e, FALSE)

\* The quotient of two mantissas as a float
FloatOfQuotient(s, qr, e) == FloatRound(s, qr.q, e, qr.r # <<>>)

\* a / b of two finite floats that are not zero: the quotient of the
\* mantissas to 56 bits or more, a remainder making it sticky
FloatDivShifted(a, b, k) ==
    FloatOfQuotient(a.s * b.s, NatDivMod(NatShl(a.m, k), b.m), a.e - b.e - k)

FloatDivFinite(a, b) ==
    FloatDivShifted(a, b, Larger(0, MantissaBits + 3 + NatBitLen(b.m) - NatBitLen(a.m)))

\* a / b for b # 0
FloatDiv(a, b) ==
    IF a.k = "nan" \/ b.k = "nan" THEN FloatNaN
    ELSE IF a.k = "inf" THEN (IF b.k = "inf" THEN FloatNaN ELSE FloatInf(a.s * b.s))
    ELSE IF b.k = "inf" \/ FloatIsZero(a) THEN FloatZero
    ELSE FloatDivFinite(a, b)

\* -1, 0 or 1 as |a| is below, equal to or above |b|, for finite floats
\* that are not zero
FloatCmpAligned(a, b, e) == NatCmp(NatShl(a.m, a.e - e), NatShl(b.m, b.e - e))

FloatCmpMagnitude(a, b) ==
    IF FloatTop(a) < FloatTop(b) THEN -1
    ELSE IF FloatTop(a) > FloatTop(b) THEN 1
    ELSE FloatCmpAligned(a, b, IF a.e <= b.e THEN a.e ELSE b.e)

\* a < b
FloatLess(a, b) ==
    IF a.k = "nan" \/ b.k = "nan" THEN FALSE
    ELSE IF a.k = "inf" \/ b.k = "inf"
    THEN (IF a.k = "inf" /\ b.k = "inf" THEN a.s < b.s
          ELSE IF a.k = "inf" THEN a.s < 0
          ELSE b.s > 0)
    ELSE IF FloatIsZero(a) THEN ~FloatIsZero(b) /\ b.s > 0
    ELSE IF FloatIsZero(b) THEN a.s < 0
    ELSE IF a.s # b.s THEN a.s < b.s
    ELSE IF a.s > 0 THEN FloatCmpMagnitude(a, b) < 0
    ELSE FloatCmpMagnitude(a, b) > 0

\* a == b
FloatEq(a, b) == a.k # "nan" /\ a = b

\* a <= b
FloatLeq(a, b) == FloatLess(a, b) \/ FloatEq(a, b)

\* The float nearest to n / d, which is what the literal and the division
\* of two ints give
FloatOfRatio(n, d) == FloatDiv(FloatOfInt(n), FloatOfInt(d))

(***************************************************************************)
(* engine/tna.py: the algebra S                                            *)
(***************************************************************************)
Abs(x) == IF x < 0 THEN -x ELSE x

\* Real(v) for a float v
RealOf(v) == [t |-> "Real", v |-> v]

\* rel_tol = 1e-09, the default of math.isclose, and abs_tol = 1e-12
RelTol == FloatOfRatio(1, 1000000000)

AbsTol == FloatDiv(FloatOfInt(1), FloatMul(FloatOfInt(1000000), FloatOfInt(1000000)))

\* math.isclose(a, b, abs_tol=1e-12)
isclose(a, b) ==
    IF a.k = "nan" \/ b.k = "nan" THEN FALSE
    ELSE IF a = b THEN TRUE
    ELSE IF a.k = "inf" \/ b.k = "inf" THEN FALSE
    ELSE LET diff == FloatAbs(FloatSub(b, a))
         IN \/ FloatLeq(diff, FloatAbs(FloatMul(RelTol, b)))
            \/ FloatLeq(diff, FloatAbs(FloatMul(RelTol, a)))
            \/ FloatLeq(diff, AbsTol)

\* x == y for two elements: the tokens are equal to themselves only, and
\* two Reals are equal when their values are close
__eq__(x, y) == IF x.t = "Real" THEN y.t = "Real" /\ isclose(x.v, y.v) ELSE y.t = x.t

\* Real(n / d) for integers n and d # 0: the float nearest to n / d, which
\* is the float of a literal with that value
Real(n, d) == RealOf(FloatOfRatio(n, d))

O_BM == [t |-> "AbsZero", v |-> FloatZero]
O_M == [t |-> "MeasZero", v |-> FloatZero]
ONE_T == [t |-> "ResToken", v |-> FloatZero]

\* What add, mul and div give where the code raises TypeError
TypeError == [t |-> "TypeError", v |-> FloatZero]

IsAbsZero(x) == x.t = "AbsZero"
IsMeasZero(x) == x.t = "MeasZero"
IsResToken(x) == x.t = "ResToken"
IsReal(x) == x.t = "Real"

\* add with MeasZero dominating a Real
add_MeasZeroDominates(x, y) ==
    IF IsResToken(x) \/ IsResToken(y) THEN ONE_T
    ELSE IF IsAbsZero(x) THEN y
    ELSE IF IsAbsZero(y) THEN x
    ELSE IF IsMeasZero(x) /\ IsMeasZero(y) THEN O_M
    ELSE IF IsMeasZero(x) /\ IsReal(y) THEN x
    ELSE IF IsReal(x) /\ IsMeasZero(y) THEN y
    ELSE IF IsReal(x) /\ IsReal(y) THEN RealOf(FloatAdd(x.v, y.v))
    ELSE TypeError

add(x, y) ==
    IF IsResToken(x) \/ IsResToken(y) THEN ONE_T
    ELSE IF IsAbsZero(x) THEN y
    ELSE IF IsAbsZero(y) THEN x
    ELSE IF IsMeasZero(x) /\ IsMeasZero(y) THEN O_M
    ELSE IF IsMeasZero(x) /\ IsReal(y) THEN y
    ELSE IF IsReal(x) /\ IsMeasZero(y) THEN x
    ELSE IF IsReal(x) /\ IsReal(y) THEN RealOf(FloatAdd(x.v, y.v))
    ELSE TypeError

\* mul with the real zero collapsing a ResToken too
mul_ZeroCollapse(x, y) ==
    IF IsAbsZero(x) \/ IsAbsZero(y) THEN O_BM
    ELSE IF IsReal(x) /\ FloatIsZero(x.v) /\ (IsMeasZero(y) \/ IsResToken(y)) THEN O_BM
    ELSE IF IsReal(y) /\ FloatIsZero(y.v) /\ IsMeasZero(x) THEN O_BM
    ELSE IF IsResToken(x) THEN y
    ELSE IF IsResToken(y) THEN x
    ELSE IF IsMeasZero(x) /\ IsMeasZero(y) THEN O_M
    ELSE IF IsMeasZero(x) /\ IsReal(y) /\ ~FloatIsZero(y.v) THEN O_M
    ELSE IF IsMeasZero(y) /\ IsReal(x) /\ ~FloatIsZero(x.v) THEN O_M
    ELSE IF IsReal(x) /\ IsReal(y) THEN RealOf(FloatMul(x.v, y.v))
    ELSE TypeError

\* mul with the real zero and MeasZero giving MeasZero
mul_NoCollapse(x, y) ==
    IF IsAbsZero(x) \/ IsAbsZero(y) THEN O_BM
    ELSE IF IsReal(x) /\ FloatIsZero(x.v) /\ IsMeasZero(y) THEN O_M
    ELSE IF IsReal(y) /\ FloatIsZero(y.v) /\ IsMeasZero(x) THEN O_M
    ELSE IF IsResToken(x) THEN y
    ELSE IF IsResToken(y) THEN x
    ELSE IF IsMeasZero(x) /\ IsMeasZero(y) THEN O_M
    ELSE IF IsMeasZero(x) /\ IsReal(y) /\ ~FloatIsZero(y.v) THEN O_M
    ELSE IF IsMeasZero(y) /\ IsReal(x) /\ ~FloatIsZero(x.v) THEN O_M
    ELSE IF IsReal(x) /\ IsReal(y) THEN RealOf(FloatMul(x.v, y.v))
    ELSE TypeError

mul(x, y) ==
    IF IsAbsZero(x) \/ IsAbsZero(y) THEN O_BM
    ELSE IF IsReal(x) /\ FloatIsZero(x.v) /\ IsMeasZero(y) THEN O_BM
    ELSE IF IsReal(y) /\ FloatIsZero(y.v) /\ IsMeasZero(x) THEN O_BM
    ELSE IF IsResToken(x) THEN y
    ELSE IF IsResToken(y) THEN x
    ELSE IF IsMeasZero(x) /\ IsMeasZero(y) THEN O_M
    ELSE IF IsMeasZero(x) /\ IsReal(y) /\ ~FloatIsZero(y.v) THEN O_M
    ELSE IF IsMeasZero(y) /\ IsReal(x) /\ ~FloatIsZero(x.v) THEN O_M
    ELSE IF IsReal(x) /\ IsReal(y) THEN RealOf(FloatMul(x.v, y.v))
    ELSE TypeError

\* DivByReal without the division of AbsZero by reals
DivByReal_NoAbsZero(x, y) ==
    IF IsMeasZero(x) /\ IsReal(y) THEN (IF ~FloatIsZero(y.v) THEN O_M ELSE O_BM)
    ELSE IF IsResToken(x) /\ IsReal(y) THEN (IF ~FloatIsZero(y.v) THEN ONE_T ELSE O_BM)
    ELSE IF IsReal(x) /\ IsReal(y) /\ ~FloatIsZero(y.v) THEN RealOf(FloatDiv(x.v, y.v))
    ELSE IF IsReal(x) /\ IsReal(y) /\ FloatIsZero(y.v) THEN O_M
    ELSE TypeError

\* div from rule D7 on
DivByReal(x, y) ==
    IF IsMeasZero(x) /\ IsReal(y) THEN (IF ~FloatIsZero(y.v) THEN O_M ELSE O_BM)
    ELSE IF IsResToken(x) /\ IsReal(y) THEN (IF ~FloatIsZero(y.v) THEN ONE_T ELSE O_BM)
    ELSE IF IsReal(x) /\ IsReal(y) /\ ~FloatIsZero(y.v) THEN RealOf(FloatDiv(x.v, y.v))
    ELSE IF IsReal(x) /\ IsReal(y) /\ FloatIsZero(y.v) THEN O_M
    ELSE IF IsAbsZero(x) THEN O_BM
    ELSE TypeError

\* div without the real zero singularity D6
div_NoSingularity(x, y) ==
    IF IsAbsZero(y) THEN O_BM
    ELSE IF IsResToken(y) THEN x
    ELSE IF IsMeasZero(x) /\ IsMeasZero(y) THEN ONE_T
    ELSE IF IsMeasZero(y) /\ IsReal(x) /\ FloatIsZero(x.v) THEN O_BM
    ELSE IF IsMeasZero(y) /\ IsAbsZero(x) THEN O_BM
    ELSE IF IsMeasZero(y) /\ IsReal(x) /\ ~FloatIsZero(x.v) THEN O_M
    ELSE IF IsMeasZero(y) /\ IsResToken(x) THEN O_M
    ELSE DivByReal(x, y)

div(x, y) ==
    IF IsAbsZero(y) THEN O_BM
    ELSE IF IsResToken(y) THEN x
    ELSE IF IsMeasZero(x) /\ IsMeasZero(y) THEN ONE_T
    ELSE IF IsReal(x) /\ FloatIsZero(x.v) /\ IsReal(y) /\ FloatIsZero(y.v) THEN O_BM
    ELSE IF IsMeasZero(y) /\ IsReal(x) /\ FloatIsZero(x.v) THEN O_BM
    ELSE IF IsMeasZero(y) /\ IsAbsZero(x) THEN O_BM
    ELSE IF IsMeasZero(y) /\ IsReal(x) /\ ~FloatIsZero(x.v) THEN O_M
    ELSE IF IsMeasZero(y) /\ IsResToken(x) THEN O_M
    ELSE DivByReal(x, y)

\* count_s counting the Real entries
count_s_Definite(M) == Cardinality({i \in 1..Len(M) : IsReal(M[i])})

\* count_s counting every entry
count_s_All(M) == Len(M)

count_s(M) == Cardinality({i \in 1..Len(M) : ~IsAbsZero(M[i])})

RECURSIVE FoldAdd(_, _)
FoldAdd(result, rest) ==
    IF rest = <<>> THEN result ELSE FoldAdd(add(result, Head(rest)), Tail(rest))

sum_s(M) ==
    LET eligible == SelectSeq(M, LAMBDA x : ~IsAbsZero(x))
    IN IF eligible = <<>> THEN O_BM ELSE FoldAdd(Head(eligible), Tail(eligible))

\* avg_s dividing by the length of M
avg_s_Total(M) ==
    IF Len(M) = 0 THEN O_BM ELSE div(sum_s(M), Real(Len(M), 1))

avg_s(M) ==
    LET k == count_s(M)
    IN IF k = 0 THEN O_BM ELSE div(sum_s(M), Real(k, 1))

\* 10^k as a natural number, and the float of the literal 1e<k>, which is
\* 10^k itself up to k = 22
RECURSIVE NatPow10(_)
NatPow10(k) == IF k = 0 THEN <<1>> ELSE NatMul(NatOfInt(10), NatPow10(k - 1))

Pow10(k) == FloatRound(1, NatPow10(k), 0, FALSE)

\* The elements the operations are tried on: the three tokens, the
\* integers up to MaxMagnitude either side of zero, and 0.1, 0.2 and -0.3,
\* which no float holds exactly
MaxMagnitude == 2

\* Reals of other magnitudes: 3, -3 and 5 of test_distributivity_fails,
\* 1e8 and -1e8, next to which 0.1 loses digits, 1e16 and
\* -9999999999999998.0, between which the floats are 2 apart, 1e-20, less
\* than the relative tolerance of ==, and 2.0 ** -600, whose square is
\* rounded to 0.0
WideValues ==
    {Real(3, 1), Real(-3, 1), Real(5, 1), Real(100000000, 1), Real(-100000000, 1),
     RealOf(Pow10(16)), RealOf(FloatNeg(FloatSub(Pow10(16), FloatOfInt(2)))),
     RealOf(FloatDiv(FloatOfInt(1), Pow10(20))), RealOf(FloatOf(1, <<1>>, -600))}

AlgebraValues ==
    {O_BM, O_M, ONE_T, Real(1, 10), Real(1, 5), Real(-3, 10)}
        \cup {Real(n, 1) : n \in (-MaxMagnitude)..MaxMagnitude}
        \cup WideValues

AlgebraInputs == [x : AlgebraValues, y : AlgebraValues, z : AlgebraValues]

AlgebraInit == fz_in \in AlgebraInputs /\ fz_out = <<>>

\* The calls the tests of tna.py make on x, y, z
AlgebraOps ==
    /\ fz_in # <<>> /\ fz_out = <<>>
    /\ LET x == fz_in.x
           y == fz_in.y
           z == fz_in.z
       IN fz_out' =
            <<[add_x_bm |-> add(x, O_BM), add_bm_x |-> add(O_BM, x),
               mul_x_t |-> mul(x, ONE_T), mul_t_x |-> mul(ONE_T, x),
               add_xy |-> add(x, y), add_yx |-> add(y, x),
               mul_xy |-> mul(x, y), mul_yx |-> mul(y, x),
               add_xy_z |-> add(add(x, y), z), add_x_yz |-> add(x, add(y, z)),
               mul_xy_z |-> mul(mul(x, y), z), mul_x_yz |-> mul(x, mul(y, z)),
               div_xy |-> div(x, y),
               coherence |-> mul(div(O_M, O_M), O_M),
               dist_lhs |-> mul(x, add(y, z)),
               dist_rhs |-> add(mul(x, y), mul(x, z)),
               add_chain |-> <<add(x, O_BM), add(x, O_M), add(x, ONE_T)>>,
               mul_chain |-> <<mul(x, O_BM), mul(x, O_M), mul(x, ONE_T)>>]>>
    /\ UNCHANGED fz_in

(***************************************************************************)
(* engine/fusion.py                                                        *)
(***************************************************************************)
info_level(x) ==
    IF IsAbsZero(x) THEN 0
    ELSE IF IsMeasZero(x) THEN 1
    ELSE IF IsReal(x) THEN 2
    ELSE IF IsResToken(x) THEN 3
    ELSE -1     \* raise TypeError

\* abs(ratio.v - 1.0) <= eps
WithinEps_Inclusive(ratio, eps) ==
    FloatLeq(FloatAbs(FloatSub(ratio.v, FloatOfInt(1))), eps.v)

\* abs(ratio.v - 1.0) < eps, for a Real ratio and eps given as Real(eps)
WithinEps(ratio, eps) ==
    FloatLess(FloatAbs(FloatSub(ratio.v, FloatOfInt(1))), eps.v)

pairwise_consistency(a, b, eps) ==
    LET ratio == div(a.s, b.s)
    IN [sensor_a |-> a.sensor_id, sensor_b |-> b.sensor_id, ratio |-> ratio,
        level |-> info_level(ratio),
        agreement |->
            IF IsReal(ratio) THEN (IF WithinEps(ratio, eps) THEN "AGREE" ELSE "DISAGREE")
            ELSE IF IsMeasZero(ratio) THEN "INDETERMINATE"
            ELSE IF IsAbsZero(ratio) THEN "INAPPLICABLE"
            ELSE IF IsResToken(ratio) THEN "RESOLVED"
            ELSE "UNKNOWN"]

\* The index pairs (i, j), i < j, in the order of the two nested loops
RECURSIVE PairsFrom(_, _, _)
PairsFrom(i, j, n) ==
    IF i > n THEN <<>>
    ELSE IF j > n THEN PairsFrom(i + 1, i + 2, n)
    ELSE <<<<i, j>>>> \o PairsFrom(i, j + 1, n)

all_pairwise(readings, eps) ==
    LET idx == PairsFrom(1, 2, Len(readings))
    IN [k \in 1..Len(idx) |->
           pairwise_consistency(readings[idx[k][1]], readings[idx[k][2]], eps)]

derive_sensor_alerts(readings, optional_ids) ==
    [i \in 1..Len(readings) |->
        LET r == readings[i]
            is_opt == r.sensor_id \in optional_ids
        IN IF IsAbsZero(r.s)
           THEN [sensor_id |-> r.sensor_id, tna_type |-> "0_bm", alert |-> "OFFLINE",
                 is_optional |-> is_opt]
           ELSE IF IsMeasZero(r.s)
           THEN [sensor_id |-> r.sensor_id, tna_type |-> "0_m", alert |-> "DEGRADED",
                 is_optional |-> is_opt]
           ELSE IF IsReal(r.s)
           THEN [sensor_id |-> r.sensor_id, tna_type |-> "Real", alert |-> "OK",
                 is_optional |-> is_opt]
           ELSE [sensor_id |-> r.sensor_id, tna_type |-> "<class 'tna.ResToken'>", alert |-> "UNKNOWN",
                 is_optional |-> is_opt]]

CountIf(seq, Test(_)) == Cardinality({i \in 1..Len(seq) : Test(seq[i])})

\* ModeAndReason testing the semi-required disagreements before the offline
\* required sensors
ModeAndReason_SemiFirst(fused_value, pairwise, sensor_alerts, max_disagree, optional) ==
    LET required_pairs ==
            SelectSeq(pairwise, LAMBDA p :
                p.sensor_a \notin optional /\ p.sensor_b \notin optional)
        semi_required_pairs ==
            SelectSeq(pairwise, LAMBDA p :
                p.sensor_a \notin optional \/ p.sensor_b \notin optional)
        disagree_count == CountIf(required_pairs, LAMBDA p : p.agreement = "DISAGREE")
        semi_disagree == CountIf(semi_required_pairs, LAMBDA p : p.agreement = "DISAGREE")
        required_offline ==
            SelectSeq(sensor_alerts, LAMBDA a : ~a.is_optional /\ a.alert = "OFFLINE")
        required_degraded ==
            SelectSeq(sensor_alerts, LAMBDA a : ~a.is_optional /\ a.alert = "DEGRADED")
        required_indeterminate ==
            CountIf(required_pairs,
                    LAMBDA p : p.agreement \in {"INDETERMINATE", "RESOLVED"})
    IN IF IsAbsZero(fused_value)
       THEN [group_mode |-> "FAILOVER", reasons |-> <<"FUSED_VALUE_INAPPLICABLE">>]
       ELSE IF disagree_count > max_disagree
       THEN [group_mode |-> "INCONSISTENT", reasons |-> <<"REQUIRED_DISAGREE">>]
       ELSE IF IsMeasZero(fused_value)
       THEN [group_mode |-> "DEGRADED", reasons |-> <<"FUSED_VALUE_INDETERMINATE">>]
       ELSE IF required_degraded # <<>>
       THEN [group_mode |-> "DEGRADED", reasons |-> <<"REQUIRED_SENSOR_DEGRADED">>]
       ELSE IF required_indeterminate > 0
       THEN [group_mode |-> "DEGRADED", reasons |-> <<"REQUIRED_INDETERMINATE_PAIRS">>]
       ELSE IF semi_disagree > max_disagree
       THEN [group_mode |-> "INCONSISTENT", reasons |-> <<"SEMI_REQUIRED_DISAGREE">>]
       ELSE IF required_offline # <<>>
       THEN [group_mode |-> "REDUCED", reasons |-> <<"REQUIRED_SENSOR_OFFLINE">>]
       ELSE [group_mode |-> "OK", reasons |-> <<>>]

\* The mode of a group with enough eligible readings, and its reason
ModeAndReason(fused_value, pairwise, sensor_alerts, max_disagree, optional) ==
    LET required_pairs ==
            SelectSeq(pairwise, LAMBDA p :
                p.sensor_a \notin optional /\ p.sensor_b \notin optional)
        semi_required_pairs ==
            SelectSeq(pairwise, LAMBDA p :
                p.sensor_a \notin optional \/ p.sensor_b \notin optional)
        disagree_count == CountIf(required_pairs, LAMBDA p : p.agreement = "DISAGREE")
        semi_disagree == CountIf(semi_required_pairs, LAMBDA p : p.agreement = "DISAGREE")
        required_offline ==
            SelectSeq(sensor_alerts, LAMBDA a : ~a.is_optional /\ a.alert = "OFFLINE")
        required_degraded ==
            SelectSeq(sensor_alerts, LAMBDA a : ~a.is_optional /\ a.alert = "DEGRADED")
        required_indeterminate ==
            CountIf(required_pairs,
                    LAMBDA p : p.agreement \in {"INDETERMINATE", "RESOLVED"})
    IN IF IsAbsZero(fused_value)
       THEN [group_mode |-> "FAILOVER", reasons |-> <<"FUSED_VALUE_INAPPLICABLE">>]
       ELSE IF disagree_count > max_disagree
       THEN [group_mode |-> "INCONSISTENT", reasons |-> <<"REQUIRED_DISAGREE">>]
       ELSE IF IsMeasZero(fused_value)
       THEN [group_mode |-> "DEGRADED", reasons |-> <<"FUSED_VALUE_INDETERMINATE">>]
       ELSE IF required_degraded # <<>>
       THEN [group_mode |-> "DEGRADED", reasons |-> <<"REQUIRED_SENSOR_DEGRADED">>]
       ELSE IF required_indeterminate > 0
       THEN [group_mode |-> "DEGRADED", reasons |-> <<"REQUIRED_INDETERMINATE_PAIRS">>]
       ELSE IF required_offline # <<>>
       THEN [group_mode |-> "REDUCED", reasons |-> <<"REQUIRED_SENSOR_OFFLINE">>]
       ELSE IF semi_disagree > max_disagree
       THEN [group_mode |-> "INCONSISTENT", reasons |-> <<"SEMI_REQUIRED_DISAGREE">>]
       ELSE [group_mode |-> "OK", reasons |-> <<>>]

\* fuse_group(readings, required_eligible=, agree_eps=, max_disagree=,
\* optional_sensors=); the reasons are kept without their formatted counts
fuse_group(readings, required_eligible, agree_eps, max_disagree, optional) ==
    LET typed_values == [i \in 1..Len(readings) |-> readings[i].s]
        eligible_count == count_s(typed_values)
        total_count == Len(typed_values)
        fused_sum == sum_s(typed_values)
        fused_value == avg_s(typed_values)
        definite_count == CountIf(typed_values, IsReal)
        redundancy ==
            IF total_count > 0 THEN FloatOfRatio(eligible_count, total_count)
            ELSE FloatZero
        sensor_alerts == derive_sensor_alerts(readings, optional)
        base == [fused_value |-> fused_value, eligible_count |-> eligible_count,
                 total_count |-> total_count, definite_count |-> definite_count,
                 fused_sum |-> fused_sum, sensor_alerts |-> sensor_alerts,
                 confidence |-> redundancy, redundancy |-> redundancy]
    IN IF eligible_count < required_eligible
       THEN base @@ [pairwise |-> <<>>, group_mode |-> "FAILOVER",
                     reasons |-> <<"INSUFFICIENT_ELIGIBLE">>]
       ELSE LET pairwise == all_pairwise(readings, agree_eps)
            IN base @@ [pairwise |-> pairwise]
                    @@ ModeAndReason(fused_value, pairwise, sensor_alerts,
                                     max_disagree, optional)

\* temporal_fuse with the two weights exchanged
temporal_fuse_WeightsSwapped(current, previous, alpha) ==
    LET weighted_current == mul(RealOf(FloatSub(FloatOfInt(1), alpha.v)), current)
        weighted_previous == mul(alpha, previous)
    IN add(weighted_current, weighted_previous)

\* temporal_fuse(current, previous, alpha), alpha given as Real(alpha)
temporal_fuse(current, previous, alpha) ==
    LET weighted_current == mul(alpha, current)
        weighted_previous == mul(RealOf(FloatSub(FloatOfInt(1), alpha.v)), previous)
    IN add(weighted_current, weighted_previous)

(***************************************************************************)
(* engine/sensor_groups.py                                                 *)
(***************************************************************************)
\* decide_group fusing an offline reading for a sensor the mapping lacks
decide_group_Offline(group, typed_by_sensor) ==
    LET readings == [i \in 1..Len(group.sensors) |->
                        IF group.sensors[i] \in DOMAIN typed_by_sensor
                        THEN typed_by_sensor[group.sensors[i]]
                        ELSE [sensor_id |-> group.sensors[i], s |-> O_BM]]
        fr == fuse_group(readings, group.required_eligible, group.agree_eps,
                         group.max_outliers, group.optional_sensors)
    IN [group |-> group.name, group_mode |-> fr.group_mode,
        eligible_count |-> fr.eligible_count, total_count |-> fr.total_count,
        real_count |-> fr.definite_count, confidence |-> fr.confidence,
        redundancy |-> fr.redundancy, fused_value |-> fr.fused_value,
        fused_sum |-> fr.fused_sum, pairwise |-> fr.pairwise,
        sensor_alerts |-> fr.sensor_alerts, reasons |-> fr.reasons]

\* decide_group(group, typed_by_sensor): typed_by_sensor is a function from
\* the sensor ids it has to their TypedReading
decide_group(group, typed_by_sensor) ==
    LET has == SelectSeq(group.sensors, LAMBDA sid : sid \in DOMAIN typed_by_sensor)
        readings == [i \in 1..Len(has) |-> typed_by_sensor[has[i]]]
        fr == fuse_group(readings, group.required_eligible, group.agree_eps,
                         group.max_outliers, group.optional_sensors)
    IN [group |-> group.name, group_mode |-> fr.group_mode,
        eligible_count |-> fr.eligible_count, total_count |-> fr.total_count,
        real_count |-> fr.definite_count, confidence |-> fr.confidence,
        redundancy |-> fr.redundancy, fused_value |-> fr.fused_value,
        fused_sum |-> fr.fused_sum, pairwise |-> fr.pairwise,
        sensor_alerts |-> fr.sensor_alerts, reasons |-> fr.reasons]

(***************************************************************************)
(* alert_engine.py                                                         *)
(***************************************************************************)
CONFIRM_AFTER == 3
CLEAR_AFTER == CONFIRM_AFTER * 2
COOLDOWN_SECONDS == 1800

ROOT_CAUSE == "root_cause"
CASCADE == "cascade"
INDEPENDENT == "independent"
FaultType == {ROOT_CAUSE, CASCADE, INDEPENDENT}

\* Bounds of the alert engine model
MaxPresent == 4     \* a present_streak of MaxPresent is not raised further
MaxAbsent == 6      \* nor an absent_streak of MaxAbsent
MaxEvents == 3      \* rows of alert_events
MaxFaults == 2      \* length of subsystem_faults

\* A timestamp string is a number: t >= 0 for the ISO string of second t with
\* a UTC offset (what datetime.now(timezone.utc).isoformat() gives), Naive(t)
\* for the ISO string of the same second without an offset
EmptyStr == -1      \* the column default ""
BadTime == -2       \* a string datetime.fromisoformat rejects
NaiveZero == -10    \* the ISO string of second 0 without an offset

Naive(t) == NaiveZero - t
Times == {0, COOLDOWN_SECONDS}
NowInputs == Times \cup {BadTime}

BuildingIds == {1, 11}
SubsystemIds == {<<"v">>}
PairTypes == {<<"c">>}
FaultNames == {<<"n">>}

\* One element of subsystem_faults, as far as update() reads it
Faults ==
    [fault_type : FaultType, subsystem : SubsystemIds,
     pair_type : PairTypes, name : FaultNames]

\* parse_iso: the datetime of a timestamp (its second, and whether it has an
\* offset), or ValueError
parse_iso(s) ==
    IF s >= 0 THEN [ok |-> TRUE, t |-> s, aware |-> TRUE]
    ELSE IF s <= NaiveZero THEN [ok |-> TRUE, t |-> NaiveZero - s, aware |-> FALSE]
    ELSE [ok |-> FALSE, t |-> 0, aware |-> FALSE]

\* current - last: TypeError for an offset-aware and a naive datetime
Subtractable(current, last) == current.aware = last.aware

_build_fault_key(building_id, fault) ==
    IntToStr(building_id) \o <<":">> \o fault.subsystem \o <<":">>
        \o fault.pair_type \o <<":">> \o fault.name

KeyPrefix(building_id) == IntToStr(building_id) \o <<":">>

\* root_faults with the filter dropping cascades only
root_faults_NotCascade(subsystem_faults) ==
    SelectSeq(subsystem_faults, LAMBDA f : f.fault_type # CASCADE)

root_faults(subsystem_faults) ==
    SelectSeq(subsystem_faults, LAMBDA f : f.fault_type = ROOT_CAUSE)

\* The dict `present`: its keys in insertion order, each with the last fault
\* stored under it
RECURSIVE PresentDict(_, _)
PresentDict(building_id, faults) ==
    IF faults = <<>> THEN <<>>
    ELSE LET prev == PresentDict(building_id, Front(faults))
             f == Last(faults)
             key == _build_fault_key(building_id, f)
             at == {i \in 1..Len(prev) : prev[i].key = key}
         IN IF at = {} THEN Append(prev, [key |-> key, fault |-> f])
            ELSE [i \in 1..Len(prev) |->
                     IF i \in at THEN [key |-> key, fault |-> f] ELSE prev[i]]

present(building_id, subsystem_faults) ==
    PresentDict(building_id, root_faults(subsystem_faults))

NewAlertState(key, building_id) ==
    [fault_key |-> key, building_id |-> building_id,
     present_streak |-> 0, absent_streak |-> 0,
     active |-> FALSE, confirmed |-> FALSE,
     last_alerted_at |-> EmptyStr, last_seen_at |-> EmptyStr]

\* InCooldown with the window closed at its end: <= for <
InCooldown_Inclusive(last_alerted_at, now) ==
    /\ last_alerted_at # EmptyStr
    /\ parse_iso(last_alerted_at).ok
    /\ parse_iso(now).ok
    /\ Subtractable(parse_iso(now), parse_iso(last_alerted_at))
    /\ parse_iso(now).t - parse_iso(last_alerted_at).t <= COOLDOWN_SECONDS

\* The cooldown test: TRUE when the emit is skipped. A ValueError of either
\* parse_iso and the TypeError of the subtraction are caught and the emit is
\* not skipped.
InCooldown(last_alerted_at, now) ==
    /\ last_alerted_at # EmptyStr
    /\ parse_iso(last_alerted_at).ok
    /\ parse_iso(now).ok
    /\ Subtractable(parse_iso(now), parse_iso(last_alerted_at))
    /\ parse_iso(now).t - parse_iso(last_alerted_at).t < COOLDOWN_SECONDS

\* UpdatePresent confirming one cycle early: > CONFIRM_AFTER - 2
UpdatePresent_Early(state, now) ==
    LET s1 == [state EXCEPT !.present_streak = @ + 1, !.absent_streak = 0,
                            !.active = TRUE, !.last_seen_at = now]
    IN IF s1.present_streak > CONFIRM_AFTER - 2 /\ ~s1.confirmed
       THEN IF InCooldown(s1.last_alerted_at, now)
            THEN [row |-> [s1 EXCEPT !.confirmed = TRUE, !.active = TRUE],
                  emit |-> FALSE]
            ELSE [row |-> [s1 EXCEPT !.confirmed = TRUE, !.last_alerted_at = now],
                  emit |-> TRUE]
       ELSE [row |-> s1, emit |-> FALSE]

\* UpdatePresent without the test of `confirmed`
UpdatePresent_Refire(state, now) ==
    LET s1 == [state EXCEPT !.present_streak = @ + 1, !.absent_streak = 0,
                            !.active = TRUE, !.last_seen_at = now]
    IN IF s1.present_streak >= CONFIRM_AFTER
       THEN IF InCooldown(s1.last_alerted_at, now)
            THEN [row |-> [s1 EXCEPT !.confirmed = TRUE, !.active = TRUE],
                  emit |-> FALSE]
            ELSE [row |-> [s1 EXCEPT !.confirmed = TRUE, !.last_alerted_at = now],
                  emit |-> TRUE]
       ELSE [row |-> s1, emit |-> FALSE]

\* UpdatePresent restarting the cooldown window when it suppresses an alert
UpdatePresent_Restart(state, now) ==
    LET s1 == [state EXCEPT !.present_streak = @ + 1, !.absent_streak = 0,
                            !.active = TRUE, !.last_seen_at = now]
    IN IF s1.present_streak >= CONFIRM_AFTER /\ ~s1.confirmed
       THEN IF InCooldown(s1.last_alerted_at, now)
            THEN [row |-> [s1 EXCEPT !.confirmed = TRUE, !.active = TRUE,
                                     !.last_alerted_at = now],
                  emit |-> FALSE]
            ELSE [row |-> [s1 EXCEPT !.confirmed = TRUE, !.last_alerted_at = now],
                  emit |-> TRUE]
       ELSE [row |-> s1, emit |-> FALSE]

\* UpdatePresent leaving the key unconfirmed when the cooldown skips the emit
UpdatePresent_RetryAfterCooldown(state, now) ==
    LET s1 == [state EXCEPT !.present_streak = @ + 1, !.absent_streak = 0,
                            !.active = TRUE, !.last_seen_at = now]
    IN IF s1.present_streak >= CONFIRM_AFTER /\ ~s1.confirmed
       THEN IF InCooldown(s1.last_alerted_at, now)
            THEN [row |-> [s1 EXCEPT !.active = TRUE], emit |-> FALSE]
            ELSE [row |-> [s1 EXCEPT !.confirmed = TRUE, !.last_alerted_at = now],
                  emit |-> TRUE]
       ELSE [row |-> s1, emit |-> FALSE]

\* One iteration of the loop over present faults: the row afterwards and
\* whether an AlertEvent was added
UpdatePresent(state, now) ==
    LET s1 == [state EXCEPT !.present_streak = @ + 1, !.absent_streak = 0,
                            !.active = TRUE, !.last_seen_at = now]
    IN IF s1.present_streak >= CONFIRM_AFTER /\ ~s1.confirmed
       THEN IF InCooldown(s1.last_alerted_at, now)
            THEN [row |-> [s1 EXCEPT !.confirmed = TRUE, !.active = TRUE],
                  emit |-> FALSE]
            ELSE [row |-> [s1 EXCEPT !.confirmed = TRUE, !.last_alerted_at = now],
                  emit |-> TRUE]
       ELSE [row |-> s1, emit |-> FALSE]

\* UpdateAbsent clearing one cycle late: > for >=
UpdateAbsent_Late(state) ==
    LET s1 == [state EXCEPT !.absent_streak = @ + 1, !.present_streak = 0]
    IN IF s1.absent_streak > CLEAR_AFTER
       THEN [s1 EXCEPT !.active = FALSE, !.confirmed = FALSE]
       ELSE s1

\* One iteration of the loop over tracked keys that are not present
UpdateAbsent(state) ==
    LET s1 == [state EXCEPT !.absent_streak = @ + 1, !.present_streak = 0]
    IN IF s1.absent_streak >= CLEAR_AFTER
       THEN [s1 EXCEPT !.active = FALSE, !.confirmed = FALSE]
       ELSE s1

\* states without the filter on building_id
states_Unfiltered(building_id) == alert_state

\* The rows update() loads: those of this building
states(building_id) == {s \in alert_state : s.building_id = building_id}

StateOf(rows, key) == CHOOSE s \in rows : s.fault_key = key

Tracked(rows, key) == \E s \in rows : s.fault_key = key

\* The row a present key is updated from: the loaded one or a new one
StateBefore(building_id, key) ==
    IF Tracked(states(building_id), key)
    THEN StateOf(states(building_id), key)
    ELSE NewAlertState(key, building_id)

AlertEventRow(building_id, key, fault, now) ==
    [building_id |-> building_id, fault_key |-> key,
     subsystem |-> fault.subsystem, created_at |-> now]

FiredEntry(key, fault) == [fault_key |-> key, subsystem |-> fault.subsystem]

\* What the last call was given: the building, the timestamp, the keys of
\* its faults by fault_type, and how it ended
CallOf(building_id, subsystem_faults, now, outcome) ==
    [building_id |-> building_id, now |-> now,
     keys |-> [t \in FaultType |->
                  {_build_fault_key(building_id, subsystem_faults[i]) :
                      i \in {j \in 1..Len(subsystem_faults) :
                                 subsystem_faults[j].fault_type = t}}],
     outcome |-> outcome]

\* update(db, building_id, subsystem_faults, now)
Update(building_id, subsystem_faults, now) ==
    LET pres == present(building_id, subsystem_faults)
        presKeys == {pres[i].key : i \in 1..Len(pres)}
        loaded == states(building_id)
        badKey == \E i \in 1..Len(pres) :
                      ~StartsWith(pres[i].key, KeyPrefix(building_id))
        after == [i \in 1..Len(pres) |->
                     UpdatePresent(StateBefore(building_id, pres[i].key), now)]
        emitIdx == {i \in 1..Len(pres) : after[i].emit}
        emitSeq == SelectSeq([i \in 1..Len(pres) |-> i], LAMBDA i : i \in emitIdx)
        newEvents == [j \in 1..Len(emitSeq) |->
                         AlertEventRow(building_id, pres[emitSeq[j]].key,
                                       pres[emitSeq[j]].fault, now)]
        newFired == [j \in 1..Len(emitSeq) |->
                        FiredEntry(pres[emitSeq[j]].key, pres[emitSeq[j]].fault)]
        absentRows == {s \in loaded : s.fault_key \notin presKeys}
    IN  \* the bounds of the model
        /\ \A s \in loaded :
              IF s.fault_key \in presKeys
              THEN s.present_streak < MaxPresent
              ELSE s.absent_streak < MaxAbsent
        /\ Len(alert_events) + Cardinality(emitIdx) <= MaxEvents
        /\ IF badKey
           THEN /\ call' = CallOf(building_id, subsystem_faults, now, "ValueError")
                /\ fired' = <<>>
                /\ UNCHANGED <<alert_state, alert_events>>
           ELSE /\ alert_state' =
                       (alert_state \ loaded)
                           \cup {after[i].row : i \in 1..Len(pres)}
                           \cup {UpdateAbsent(s) : s \in absentRows}
                /\ alert_events' = alert_events \o newEvents
                /\ fired' = newFired
                /\ call' = CallOf(building_id, subsystem_faults, now, "ok")

FaultLists == SeqsUpTo(Faults, MaxFaults)

(***************************************************************************)
(* main.py                                                                 *)
(***************************************************************************)
\* What is known of the last call when it was delete_building(bid)
DeletedCall(bid) ==
    [building_id |-> bid, now |-> EmptyStr, keys |-> [t \in FaultType |-> {}],
     outcome |-> "deleted"]

\* delete_building(bid): the AlertEvents and the AlertStates of the building
\* are deleted and the deletion is committed. The keys of the building are
\* no longer suppressed: the rows that said so are gone.
DeleteBuilding(bid) ==
    /\ alert_events' = SelectSeq(alert_events, LAMBDA e : e.building_id # bid)
    /\ alert_state' = {s \in alert_state : s.building_id # bid}
    /\ fired' = <<>>
    /\ call' = DeletedCall(bid)
    /\ suppressed' = {k \in suppressed : ~StartsWith(k, KeyPrefix(bid))}
    /\ UNCHANGED in_flight

\* update() called for some building of B with some list of FL at some time of N
AlertUpdateIn(B, FL, N) ==
    /\ \E b \in B, fs \in FL, now \in N : Update(b, fs, now)
    /\ UNCHANGED <<in_flight, suppressed>>

\* The keys of a call that take the cooldown branch of the loop over present
\* faults (l.172-181)
CooldownBranch(building_id, subsystem_faults, now) ==
    LET pres == present(building_id, subsystem_faults)
    IN {pres[i].key : i \in
          {j \in 1..Len(pres) :
              LET before == StateBefore(building_id, pres[j].key)
              IN /\ before.present_streak + 1 >= CONFIRM_AFTER
                 /\ ~before.confirmed
                 /\ InCooldown(before.last_alerted_at, now)}}

\* update() with the history of the suppressed keys kept: a key enters when
\* its confirmation takes the cooldown branch and leaves when its
\* absent_streak reaches CLEAR_AFTER
UpdateWithHistory(building_id, subsystem_faults, now) ==
    /\ Update(building_id, subsystem_faults, now)
    /\ suppressed' =
          {k \in suppressed \cup CooldownBranch(building_id, subsystem_faults, now) :
              \A s \in alert_state' : s.fault_key = k => s.absent_streak < CLEAR_AFTER}
    /\ UNCHANGED in_flight

\* The processes that run run_analysis against the one database: arq
\* workers started from WorkerSettings and the API process when it runs the
\* job inline. run_analysis has no await, so the jobs of one process (up to
\* max_jobs of them) run one after the other; nothing orders the jobs of
\* two processes.
MaxWorkers == 2
Workers == 1..MaxWorkers

IdleJob ==
    [pc |-> "idle", building_id |-> 0, subsystem_faults |-> <<>>,
     now |-> EmptyStr, loaded |-> {}]

WorkerIdle == in_flight = [w \in Workers |-> IdleJob]

NoCall ==
    [building_id |-> 0, now |-> EmptyStr, keys |-> [t \in FaultType |-> {}],
     outcome |-> "none"]

AlertInit ==
    /\ alert_state = {}
    /\ alert_events = <<>>
    /\ fired = <<>>
    /\ call = NoCall
    /\ WorkerIdle
    /\ suppressed = {}

(***************************************************************************)
(* worker.py                                                               *)
(***************************************************************************)
\* What update() computes from the rows it loaded: the rows of the present
\* keys, the rows of the absent ones and the events it adds to the session
UpdateOn(loaded, building_id, subsystem_faults, now) ==
    LET pres == present(building_id, subsystem_faults)
        presKeys == {pres[i].key : i \in 1..Len(pres)}
        before == [i \in 1..Len(pres) |->
                      IF Tracked(loaded, pres[i].key)
                      THEN StateOf(loaded, pres[i].key)
                      ELSE NewAlertState(pres[i].key, building_id)]
        after == [i \in 1..Len(pres) |-> UpdatePresent(before[i], now)]
        emitSeq == SelectSeq([i \in 1..Len(pres) |-> i], LAMBDA i : after[i].emit)
    IN [added |-> {after[i].row : i \in {j \in 1..Len(pres) :
                                            ~Tracked(loaded, pres[j].key)}},
        changed |-> {<<before[i], after[i].row>> :
                        i \in {j \in 1..Len(pres) : Tracked(loaded, pres[j].key)}}
                    \cup {<<s, UpdateAbsent(s)>> :
                             s \in {r \in loaded : r.fault_key \notin presKeys}},
        events |-> [j \in 1..Len(emitSeq) |->
                       AlertEventRow(building_id, pres[emitSeq[j]].key,
                                     pres[emitSeq[j]].fault, now)],
        fired |-> [j \in 1..Len(emitSeq) |->
                      FiredEntry(pres[emitSeq[j]].key, pres[emitSeq[j]].fault)]]

\* The UPDATE the session flushes for a loaded row: the columns the call
\* changed are set on the row the table has now
FlushRow(current, before, after) ==
    [c \in DOMAIN current |-> IF after[c] # before[c] THEN after[c] ELSE current[c]]

\* The keys of `present`
PresentKeys(building_id, subsystem_faults) ==
    LET pres == present(building_id, subsystem_faults)
    IN {pres[i].key : i \in 1..Len(pres)}

\* run_analysis up to the query of update(): the job's building and latest
\* faults, now_iso, and the rows of the building as the table has them
RunAnalysisLoad(w, building_id, subsystem_faults, now) ==
    /\ in_flight[w].pc = "idle"
    \* the bounds of the model
    /\ \A s \in states(building_id) :
          IF s.fault_key \in PresentKeys(building_id, subsystem_faults)
          THEN s.present_streak < MaxPresent
          ELSE s.absent_streak < MaxAbsent
    /\ in_flight' = [in_flight EXCEPT ![w] =
          [pc |-> "loaded", building_id |-> building_id,
           subsystem_faults |-> subsystem_faults, now |-> now,
           loaded |-> states(building_id)]]
    /\ UNCHANGED <<alert_state, alert_events, fired, call, suppressed>>

\* The rest of update() and db.commit(): the INSERT of a key another job
\* has inserted since fails, and so does the UPDATE of a row that
\* delete_building has deleted since (it matches no row); the job's changes
\* are then rolled back. The INSERT of a row of a deleted building goes
\* through: the default database, SQLite, does not enforce the foreign key.
RunAnalysisCommit(w) ==
    LET job == in_flight[w]
        upd == UpdateOn(job.loaded, job.building_id, job.subsystem_faults, job.now)
        conflict == \E r \in upd.added : Tracked(alert_state, r.fault_key)
        touched == {p[1].fault_key : p \in upd.changed}
        stale == \E key \in touched : ~Tracked(alert_state, key)
    IN /\ job.pc = "loaded"
       /\ Len(alert_events) + Len(upd.events) <= MaxEvents
       /\ in_flight' = [in_flight EXCEPT ![w] = IdleJob]
       /\ UNCHANGED suppressed
       /\ IF conflict \/ stale
          THEN /\ call' = CallOf(job.building_id, job.subsystem_faults, job.now,
                                 IF stale THEN "StaleDataError" ELSE "IntegrityError")
               /\ fired' = <<>>
               /\ UNCHANGED <<alert_state, alert_events>>
          ELSE /\ alert_state' =
                     {s \in alert_state : s.fault_key \notin touched}
                        \cup {FlushRow(StateOf(alert_state, p[1].fault_key), p[1], p[2]) :
                                 p \in upd.changed}
                        \cup upd.added
               /\ alert_events' = alert_events \o upd.events
               /\ fired' = upd.fired
               /\ call' = CallOf(job.building_id, job.subsystem_faults, job.now, "ok")

(***************************************************************************)
(* Inputs of the fusion engine                                             *)
(***************************************************************************)
MaxReadings == 3    \* readings in one fuse_group call

SensorName(i) == <<"a", "b", "c", "d", "e", "f">>[i]

ReadingValues == {O_BM, O_M, ONE_T, Real(0, 1), Real(9, 1), Real(10, 1)}

TypedReading(sensor_id, s) == [sensor_id |-> sensor_id, s |-> s]

\* The arguments of fuse_group; sensor i of the list is SensorName(i)
FuseInputs ==
    [readings : SeqsUpTo(ReadingValues, MaxReadings),
     required_eligible : 0..MaxReadings,
     agree_eps : {Real(1, 10), Real(1, 1)},
     max_disagree : {0, 1},
     optional_sensors : SUBSET {SensorName(i) : i \in 1..MaxReadings}]

ReadingsOf(values) == [i \in 1..Len(values) |-> TypedReading(SensorName(i), values[i])]

FuseIdle == fz_in = <<>> /\ fz_out = <<>>

FuseInit == fz_in \in FuseInputs /\ fz_out = <<>>

\* The call fuse_group(readings, ...) on the arguments drawn
FuseGroup ==
    /\ fz_in # <<>> /\ fz_out = <<>>
    /\ fz_out' = <<fuse_group(ReadingsOf(fz_in.readings), fz_in.required_eligible,
                              fz_in.agree_eps, fz_in.max_disagree,
                              fz_in.optional_sensors)>>
    /\ UNCHANGED fz_in

\* The orders a list of n readings can be passed in
ReadingOrders(n) ==
    {p \in [1..n -> 1..n] : \A i, j \in 1..n : p[i] = p[j] => i = j}

\* The calls fuse_group(readings, ...) on every order of the readings drawn,
\* each sensor keeping its reading
FusePermuted ==
    /\ fz_in # <<>> /\ fz_out = <<>>
    /\ LET readings == ReadingsOf(fz_in.readings)
       IN fz_out' =
            <<[p \in ReadingOrders(Len(readings)) |->
                 fuse_group([i \in 1..Len(readings) |-> readings[p[i]]],
                            fz_in.required_eligible, fz_in.agree_eps,
                            fz_in.max_disagree, fz_in.optional_sensors)]>>
    /\ UNCHANGED fz_in

\* The typed aggregates of a list of elements, and of the list with one of
\* its MeasZero entries replaced by AbsZero
AggregateInit == fz_in \in [M : SeqsUpTo(ReadingValues, MaxReadings)] /\ fz_out = <<>>

AggregatesOf(M) == [count |-> count_s(M), sum |-> sum_s(M), avg |-> avg_s(M)]

Aggregates ==
    /\ fz_in # <<>> /\ fz_out = <<>>
    /\ LET M == fz_in.M
           indeterminate == {i \in 1..Len(M) : IsMeasZero(M[i])}
       IN fz_out' =
            <<AggregatesOf(M) @@
              [offline |-> [i \in indeterminate |->
                              AggregatesOf([M EXCEPT ![i] = O_BM])]]>>
    /\ UNCHANGED fz_in

\* The smoothing factors tried, 0 and 1 included
Alphas == {Real(0, 1), Real(3, 10), Real(1, 2), Real(7, 10), Real(1, 1)}

TemporalInputs == [current : AlgebraValues, previous : AlgebraValues, alpha : Alphas]

TemporalInit == fz_in \in TemporalInputs /\ fz_out = <<>>

\* The call temporal_fuse(current, previous, alpha) on the arguments drawn
TemporalFuse ==
    /\ fz_in # <<>> /\ fz_out = <<>>
    /\ fz_out' = <<temporal_fuse(fz_in.current, fz_in.previous, fz_in.alpha)>>
    /\ UNCHANGED fz_in

\* The arguments of decide_group: a group of two or three sensors and a
\* mapping that has readings for some of them and for a sensor of no group
GroupSpecs ==
    {[name |-> "g", sensors |-> sensors, required_eligible |-> k,
      agree_eps |-> Real(1, 1), max_outliers |-> 0, optional_sensors |-> opt] :
        sensors \in {<<"a", "b">>, <<"a", "b", "c">>},
        k \in 0..2, opt \in {{}, {"b"}}}

SensorIds == {"a", "b", "c", "z"}

TypedBySensor ==
    UNION {{[sid \in D |-> TypedReading(sid, v[sid])] : v \in [D -> ReadingValues]} :
              D \in SUBSET SensorIds}

GroupInit ==
    /\ fz_in \in [group : GroupSpecs, typed_by_sensor : TypedBySensor]
    /\ fz_out = <<>>

\* The call decide_group(group, typed_by_sensor) on the arguments drawn
DecideGroup ==
    /\ fz_in # <<>> /\ fz_out = <<>>
    /\ fz_out' = <<decide_group(fz_in.group, fz_in.typed_by_sensor)>>
    /\ UNCHANGED fz_in

(***************************************************************************)
(* engine/sensor_tna.py                                                    *)
(***************************************************************************)
\* None, and the values of the pair results: Float(v) is the float of the
\* integer v
None == [kind |-> "None", v |-> 0]
Float(v) == [kind |-> "float", v |-> v]

\* SensorConfig(sensor_id, noise_floor=, max_valid=); the config argument is
\* <<>> for None
SensorConfig(sensor_id, noise_floor, max_valid) ==
    <<[sensor_id |-> sensor_id, noise_floor |-> noise_floor, max_valid |-> max_valid]>>

\* classify_raw giving 0_m for NaN
classify_raw_NanInvalid(sensor_id, raw, config) ==
    LET nf == IF config # <<>> THEN config[1].noise_floor ELSE FloatZero
        mv == IF config # <<>> THEN config[1].max_valid ELSE FloatInf(1)
    IN IF raw = None THEN TypedReading(sensor_id, O_BM)
       ELSE IF raw.k = "nan" \/ FloatLess(FloatAbs(raw), nf) \/ FloatLess(mv, FloatAbs(raw))
       THEN TypedReading(sensor_id, O_M)
       ELSE TypedReading(sensor_id, RealOf(raw))

\* classify_raw(sensor_id, raw, timestamp, source, config) for raw None or
\* a float; of the TypedReading the sensor id and the element are kept
classify_raw(sensor_id, raw, config) ==
    LET nf == IF config # <<>> THEN config[1].noise_floor ELSE FloatZero
        mv == IF config # <<>> THEN config[1].max_valid ELSE FloatInf(1)
    IN IF raw = None THEN TypedReading(sensor_id, O_BM)
       ELSE IF raw.k = "nan" THEN TypedReading(sensor_id, O_BM)
       ELSE IF FloatLess(FloatAbs(raw), nf) \/ FloatLess(mv, FloatAbs(raw))
       THEN TypedReading(sensor_id, O_M)
       ELSE TypedReading(sensor_id, RealOf(raw))

\* A reading far above every finite max_valid drawn
LargeReading == 2000000

\* None, NaN, the infinities, the integers of small magnitude, a large
\* reading of either sign and two readings that are not integers
RawValues ==
    {None, FloatNaN, FloatInf(1), FloatInf(-1)}
      \cup {FloatOfInt(v) : v \in (-3..3) \cup {LargeReading, -LargeReading}}
      \cup {FloatOfRatio(19, 10), FloatOfRatio(-21, 10)}

SensorConfigs ==
    {<<>>} \cup {SensorConfig("a", FloatOfInt(nf), mv) :
                    nf \in {0, 2}, mv \in {FloatZero, FloatOfInt(2), FloatInf(1)}}

ClassifyInputs == [sensor_id : {"a", "b"}, raw : RawValues, config : SensorConfigs]

ClassifyInit == fz_in \in ClassifyInputs /\ fz_out = <<>>

\* The call classify_raw(sensor_id, raw, ..., config) on the arguments drawn
ClassifyRaw ==
    /\ fz_in # <<>> /\ fz_out = <<>>
    /\ fz_out' = <<classify_raw(fz_in.sensor_id, fz_in.raw, fz_in.config)>>
    /\ UNCHANGED fz_in

(***************************************************************************)
(* engine/window_policy.py                                                 *)
(***************************************************************************)
MaxThreshold == 2   \* the persistence thresholds tried are 1..MaxThreshold

HistorySizes == {1, 3}

WindowParams ==
    [degraded_k : 1..MaxThreshold, reduced_k : 1..MaxThreshold,
     inconsistent_k : 1..MaxThreshold, failover_k : 1..MaxThreshold,
     ok_recover_k : 1..MaxThreshold, max_history : HistorySizes]

\* The group alt_grp of run_pipeline
WinGroup ==
    [name |-> "altitude", sensors |-> <<"GPS_Alt", "BARO_Alt">>,
     required_eligible |-> 1, agree_eps |-> Real(5, 1), max_outliers |-> 0,
     optional_sensors |-> {}]

\* What the two sensors of the group read: offline, indeterminate, a value,
\* or a value the other sensor's 10 is not within agree_eps of
GpsValues == {O_BM, Real(10, 1), Real(70, 1)}
BaroValues == {O_BM, O_M, Real(10, 1)}

WinReadings ==
    {[GPS_Alt |-> TypedReading("GPS_Alt", g), BARO_Alt |-> TypedReading("BARO_Alt", b)] :
        g \in GpsValues, b \in BaroValues}

\* deque(maxlen).append(x)
DequeAppend(history, maxlen, x) ==
    LET all == Append(history, x)
    IN IF Len(all) > maxlen THEN SubSeq(all, Len(all) - maxlen + 1, Len(all)) ELSE all

RECURSIVE _consecutive_suffix(_, _)
_consecutive_suffix(hist, label) ==
    IF hist = <<>> \/ Last(hist) # label THEN 0
    ELSE 1 + _consecutive_suffix(Front(hist), label)

NewGroupWindowState == [history |-> <<>>, stable_mode |-> "OK"]

_get_state(name) ==
    IF name \in DOMAIN win_state THEN win_state[name] ELSE NewGroupWindowState

\* StableMode with the DEGRADED threshold tested before INCONSISTENT's
StableMode_DegradedFirst(hist, stable_mode, params) ==
    IF _consecutive_suffix(hist, "FAILOVER") >= params.failover_k THEN "FAILOVER"
    ELSE IF _consecutive_suffix(hist, "DEGRADED") >= params.degraded_k THEN "DEGRADED"
    ELSE IF _consecutive_suffix(hist, "INCONSISTENT") >= params.inconsistent_k
    THEN "INCONSISTENT"
    ELSE IF _consecutive_suffix(hist, "REDUCED") >= params.reduced_k THEN "REDUCED"
    ELSE IF stable_mode \in {"DEGRADED", "INCONSISTENT", "FAILOVER", "REDUCED"}
    THEN (IF _consecutive_suffix(hist, "OK") >= params.ok_recover_k
          THEN "OK" ELSE stable_mode)
    ELSE "OK"

\* The stable mode after the raw mode has been appended
StableMode(hist, stable_mode, params) ==
    IF _consecutive_suffix(hist, "FAILOVER") >= params.failover_k THEN "FAILOVER"
    ELSE IF _consecutive_suffix(hist, "INCONSISTENT") >= params.inconsistent_k
    THEN "INCONSISTENT"
    ELSE IF _consecutive_suffix(hist, "DEGRADED") >= params.degraded_k THEN "DEGRADED"
    ELSE IF _consecutive_suffix(hist, "REDUCED") >= params.reduced_k THEN "REDUCED"
    ELSE IF stable_mode \in {"DEGRADED", "INCONSISTENT", "FAILOVER", "REDUCED"}
    THEN (IF _consecutive_suffix(hist, "OK") >= params.ok_recover_k
          THEN "OK" ELSE stable_mode)
    ELSE "OK"

\* WindowedDecider.update(group, typed_by_sensor); of the dict it returns
\* win_out keeps the two entries the decider adds to decide_group's
WindowedUpdate(group, typed_by_sensor) ==
    \E base_mode \in {decide_group(group, typed_by_sensor).group_mode} :
        LET st == _get_state(group.name)
            hist == DequeAppend(st.history, win_params.max_history, base_mode)
            stable == StableMode(hist, st.stable_mode, win_params)
        IN /\ win_state' =
                  [n \in DOMAIN win_state \cup {group.name} |->
                      IF n = group.name THEN [history |-> hist, stable_mode |-> stable]
                      ELSE win_state[n]]
           /\ win_out' = <<[stable_group_mode |-> stable, base_group_mode |-> base_mode]>>
           /\ win_raw' = DequeAppend(win_raw, MaxThreshold, base_mode)
           /\ UNCHANGED win_params

WindowUpdate == \E typed \in WinReadings : WindowedUpdate(WinGroup, typed)

\* WindowedDecider.reset(): _state.clear(). The histories are gone, so the
\* raw modes the properties look back on start again, and no update has
\* returned since.
WindowReset ==
    /\ win_params # <<>>
    /\ win_state' = <<>>
    /\ win_out' = <<>>
    /\ win_raw' = <<>>
    /\ UNCHANGED win_params

WinIdle ==
    /\ win_params = <<>> /\ win_state = <<>> /\ win_out = <<>> /\ win_raw = <<>>

\* WindowedDecider(params)
WinInit ==
    /\ win_params \in WindowParams
    /\ win_state = <<>>
    /\ win_out = <<>>
    /\ win_raw = <<>>

\* WindowParams takes any integers: thresholds of 0 included. The escalation
\* thresholds run over 0..MaxThreshold, the recovery threshold over 0 and 1,
\* and the history holds the longest run a threshold asks for.
AnyWindowParams ==
    [degraded_k : 0..MaxThreshold, reduced_k : 0..MaxThreshold,
     inconsistent_k : 0..MaxThreshold, failover_k : 0..MaxThreshold,
     ok_recover_k : 0..1, max_history : {MaxThreshold}]

WinInitAny ==
    /\ win_params \in AnyWindowParams
    /\ win_state = <<>>
    /\ win_out = <<>>
    /\ win_raw = <<>>

(***************************************************************************)
(* fault_aggregator.py                                                     *)
(***************************************************************************)
\* A str is a sequence of characters. A character is written as a TLA+
\* string: the character itself when it is printable ASCII (U+0020 to
\* U+007E) other than the grave accent, which a TLA+ string cannot hold, and
\* otherwise "U+" followed by the hexadecimal digits of its code point, four
\* at least ("U+0060" is the grave accent, "U+00DF" the sharp s, "U+1F600"
\* an emoji).
Ascii == " !\"#$%&'()*+,-./0123456789:;<=>?@ABCDEFGHIJKLMNOPQRSTUVWXYZ[\\]^_abcdefghijklmnopqrstuvwxyz{|}~"
HexDigits == "0123456789ABCDEF"
LowerCase == "abcdefghijklmnopqrstuvwxyz"
UpperCase == "ABCDEFGHIJKLMNOPQRSTUVWXYZ"

\* The i-th character of a TLA+ string
CharAt(s, i) == SubSeq(s, i, i)

\* The str written as a TLA+ string of printable ASCII characters
Str(literal) == [i \in 1..Len(literal) |-> CharAt(literal, i)]

IndexOf(table, c) == CHOOSE i \in 1..Len(table) : CharAt(table, i) = c

RECURSIVE HexValue(_)
HexValue(digits) ==
    IF Len(digits) = 0 THEN 0
    ELSE 16 * HexValue(SubSeq(digits, 1, Len(digits) - 1))
           + IndexOf(HexDigits, CharAt(digits, Len(digits))) - 1

RECURSIVE Hex(_, _)
Hex(n, width) ==
    IF n = 0 /\ width <= 0 THEN ""
    ELSE Hex(n \div 16, width - 1) \o CharAt(HexDigits, (n % 16) + 1)

\* ord(c) and chr(n)
\* Ascii holds U+0020 to U+005F and then U+0061 to U+007E
ord(c) ==
    IF Len(c) > 1 THEN HexValue(SubSeq(c, 3, Len(c)))
    ELSE IF IndexOf(Ascii, c) + 31 < 96 THEN IndexOf(Ascii, c) + 31
    ELSE IndexOf(Ascii, c) + 32

chr(n) ==
    IF n >= 32 /\ n < 96 THEN CharAt(Ascii, n - 31)
    ELSE IF n > 96 /\ n <= 126 THEN CharAt(Ascii, n - 32)
    ELSE "U+" \o Hex(n, 4)

\* The case mappings of Python 3.11 (Unicode 14.0.0), by code point
\* str.upper() of one character that it maps to one character: the code
\* points first, first + step, ..., last are mapped to themselves + delta.
\* Each row is <<first, last, step, delta>>.
ToUpperRanges ==
    <<<<97, 122, 1, -32>>, <<181, 181, 1, 743>>, <<224, 246, 1, -32>>,
      <<248, 254, 1, -32>>, <<255, 255, 1, 121>>, <<257, 303, 2, -1>>,
      <<305, 305, 1, -232>>, <<307, 311, 2, -1>>, <<314, 328, 2, -1>>,
      <<331, 375, 2, -1>>, <<378, 382, 2, -1>>, <<383, 383, 1, -300>>,
      <<384, 384, 1, 195>>, <<387, 389, 2, -1>>, <<392, 392, 1, -1>>,
      <<396, 396, 1, -1>>, <<402, 402, 1, -1>>, <<405, 405, 1, 97>>,
      <<409, 409, 1, -1>>, <<410, 410, 1, 163>>, <<414, 414, 1, 130>>,
      <<417, 421, 2, -1>>, <<424, 424, 1, -1>>, <<429, 429, 1, -1>>,
      <<432, 432, 1, -1>>, <<436, 438, 2, -1>>, <<441, 441, 1, -1>>,
      <<445, 445, 1, -1>>, <<447, 447, 1, 56>>, <<453, 453, 1, -1>>,
      <<454, 454, 1, -2>>, <<456, 456, 1, -1>>, <<457, 457, 1, -2>>,
      <<459, 459, 1, -1>>, <<460, 460, 1, -2>>, <<462, 476, 2, -1>>,
      <<477, 477, 1, -79>>, <<479, 495, 2, -1>>, <<498, 498, 1, -1>>,
      <<499, 499, 1, -2>>, <<501, 501, 1, -1>>, <<505, 543, 2, -1>>,
      <<547, 563, 2, -1>>, <<572, 572, 1, -1>>, <<575, 576, 1, 10815>>,
      <<578, 578, 1, -1>>, <<583, 591, 2, -1>>, <<592, 592, 1, 10783>>,
      <<593, 593, 1, 10780>>, <<594, 594, 1, 10782>>, <<595, 595, 1, -210>>,
      <<596, 596, 1, -206>>, <<598, 599, 1, -205>>, <<601, 601, 1, -202>>,
      <<603, 603, 1, -203>>, <<604, 604, 1, 42319>>, <<608, 608, 1, -205>>,
      <<609, 609, 1, 42315>>, <<611, 611, 1, -207>>, <<613, 613, 1, 42280>>,
      <<614, 614, 1, 42308>>, <<616, 616, 1, -209>>, <<617, 617, 1, -211>>,
      <<618, 618, 1, 42308>>, <<619, 619, 1, 10743>>, <<620, 620, 1, 42305>>,
      <<623, 623, 1, -211>>, <<625, 625, 1, 10749>>, <<626, 626, 1, -213>>,
      <<629, 629, 1, -214>>, <<637, 637, 1, 10727>>, <<640, 640, 1, -218>>,
      <<642, 642, 1, 42307>>, <<643, 643, 1, -218>>, <<647, 647, 1, 42282>>,
      <<648, 648, 1, -218>>, <<649, 649, 1, -69>>, <<650, 651, 1, -217>>,
      <<652, 652, 1, -71>>, <<658, 658, 1, -219>>, <<669, 669, 1, 42261>>,
      <<670, 670, 1, 42258>>, <<837, 837, 1, 84>>, <<881, 883, 2, -1>>,
      <<887, 887, 1, -1>>, <<891, 893, 1, 130>>, <<940, 940, 1, -38>>,
      <<941, 943, 1, -37>>, <<945, 961, 1, -32>>, <<962, 962, 1, -31>>,
      <<963, 971, 1, -32>>, <<972, 972, 1, -64>>, <<973, 974, 1, -63>>,
      <<976, 976, 1, -62>>, <<977, 977, 1, -57>>, <<981, 981, 1, -47>>,
      <<982, 982, 1, -54>>, <<983, 983, 1, -8>>, <<985, 1007, 2, -1>>,
      <<1008, 1008, 1, -86>>, <<1009, 1009, 1, -80>>, <<1010, 1010, 1, 7>>,
      <<1011, 1011, 1, -116>>, <<1013, 1013, 1, -96>>, <<1016, 1016, 1, -1>>,
      <<1019, 1019, 1, -1>>, <<1072, 1103, 1, -32>>, <<1104, 1119, 1, -80>>,
      <<1121, 1153, 2, -1>>, <<1163, 1215, 2, -1>>, <<1218, 1230, 2, -1>>,
      <<1231, 1231, 1, -15>>, <<1233, 1327, 2, -1>>, <<1377, 1414, 1, -48>>,
      <<4304, 4346, 1, 3008>>, <<4349, 4351, 1, 3008>>,
      <<5112, 5117, 1, -8>>, <<7296, 7296, 1, -6254>>,
      <<7297, 7297, 1, -6253>>, <<7298, 7298, 1, -6244>>,
      <<7299, 7300, 1, -6242>>, <<7301, 7301, 1, -6243>>,
      <<7302, 7302, 1, -6236>>, <<7303, 7303, 1, -6181>>,
      <<7304, 7304, 1, 35266>>, <<7545, 7545, 1, 35332>>,
      <<7549, 7549, 1, 3814>>, <<7566, 7566, 1, 35384>>,
      <<7681, 7829, 2, -1>>, <<7835, 7835, 1, -59>>, <<7841, 7935, 2, -1>>,
      <<7936, 7943, 1, 8>>, <<7952, 7957, 1, 8>>, <<7968, 7975, 1, 8>>,
      <<7984, 7991, 1, 8>>, <<8000, 8005, 1, 8>>, <<8017, 8023, 2, 8>>,
      <<8032, 8039, 1, 8>>, <<8048, 8049, 1, 74>>, <<8050, 8053, 1, 86>>,
      <<8054, 8055, 1, 100>>, <<8056, 8057, 1, 128>>, <<8058, 8059, 1, 112>>,
      <<8060, 8061, 1, 126>>, <<8112, 8113, 1, 8>>, <<8126, 8126, 1, -7205>>,
      <<8144, 8145, 1, 8>>, <<8160, 8161, 1, 8>>, <<8165, 8165, 1, 7>>,
      <<8526, 8526, 1, -28>>, <<8560, 8575, 1, -16>>, <<8580, 8580, 1, -1>>,
      <<9424, 9449, 1, -26>>, <<11312, 11359, 1, -48>>,
      <<11361, 11361, 1, -1>>, <<11365, 11365, 1, -10795>>,
      <<11366, 11366, 1, -10792>>, <<11368, 11372, 2, -1>>,
      <<11379, 11379, 1, -1>>, <<11382, 11382, 1, -1>>,
      <<11393, 11491, 2, -1>>, <<11500, 11502, 2, -1>>,
      <<11507, 11507, 1, -1>>, <<11520, 11557, 1, -7264>>,
      <<11559, 11559, 1, -7264>>, <<11565, 11565, 1, -7264>>,
      <<42561, 42605, 2, -1>>, <<42625, 42651, 2, -1>>,
      <<42787, 42799, 2, -1>>, <<42803, 42863, 2, -1>>,
      <<42874, 42876, 2, -1>>, <<42879, 42887, 2, -1>>,
      <<42892, 42892, 1, -1>>, <<42897, 42899, 2, -1>>,
      <<42900, 42900, 1, 48>>, <<42903, 42921, 2, -1>>,
      <<42933, 42947, 2, -1>>, <<42952, 42954, 2, -1>>,
      <<42961, 42961, 1, -1>>, <<42967, 42969, 2, -1>>,
      <<42998, 42998, 1, -1>>, <<43859, 43859, 1, -928>>,
      <<43888, 43967, 1, -38864>>, <<65345, 65370, 1, -32>>,
      <<66600, 66639, 1, -40>>, <<66776, 66811, 1, -40>>,
      <<66967, 66977, 1, -39>>, <<66979, 66993, 1, -39>>,
      <<66995, 67001, 1, -39>>, <<67003, 67004, 1, -39>>,
      <<68800, 68850, 1, -64>>, <<71872, 71903, 1, -32>>,
      <<93792, 93823, 1, -32>>, <<125218, 125251, 1, -34>>>>

\* str.upper() of the characters it maps to several: <<code point, image>>
ToUpperFull ==
    <<<<223, <<83, 83>>>>, <<329, <<700, 78>>>>, <<496, <<74, 780>>>>,
      <<912, <<921, 776, 769>>>>, <<944, <<933, 776, 769>>>>,
      <<1415, <<1333, 1362>>>>, <<7830, <<72, 817>>>>, <<7831, <<84, 776>>>>,
      <<7832, <<87, 778>>>>, <<7833, <<89, 778>>>>, <<7834, <<65, 702>>>>,
      <<8016, <<933, 787>>>>, <<8018, <<933, 787, 768>>>>,
      <<8020, <<933, 787, 769>>>>, <<8022, <<933, 787, 834>>>>,
      <<8064, <<7944, 921>>>>, <<8065, <<7945, 921>>>>,
      <<8066, <<7946, 921>>>>, <<8067, <<7947, 921>>>>,
      <<8068, <<7948, 921>>>>, <<8069, <<7949, 921>>>>,
      <<8070, <<7950, 921>>>>, <<8071, <<7951, 921>>>>,
      <<8072, <<7944, 921>>>>, <<8073, <<7945, 921>>>>,
      <<8074, <<7946, 921>>>>, <<8075, <<7947, 921>>>>,
      <<8076, <<7948, 921>>>>, <<8077, <<7949, 921>>>>,
      <<8078, <<7950, 921>>>>, <<8079, <<7951, 921>>>>,
      <<8080, <<7976, 921>>>>, <<8081, <<7977, 921>>>>,
      <<8082, <<7978, 921>>>>, <<8083, <<7979, 921>>>>,
      <<8084, <<7980, 921>>>>, <<8085, <<7981, 921>>>>,
      <<8086, <<7982, 921>>>>, <<8087, <<7983, 921>>>>,
      <<8088, <<7976, 921>>>>, <<8089, <<7977, 921>>>>,
      <<8090, <<7978, 921>>>>, <<8091, <<7979, 921>>>>,
      <<8092, <<7980, 921>>>>, <<8093, <<7981, 921>>>>,
      <<8094, <<7982, 921>>>>, <<8095, <<7983, 921>>>>,
      <<8096, <<8040, 921>>>>, <<8097, <<8041, 921>>>>,
      <<8098, <<8042, 921>>>>, <<8099, <<8043, 921>>>>,
      <<8100, <<8044, 921>>>>, <<8101, <<8045, 921>>>>,
      <<8102, <<8046, 921>>>>, <<8103, <<8047, 921>>>>,
      <<8104, <<8040, 921>>>>, <<8105, <<8041, 921>>>>,
      <<8106, <<8042, 921>>>>, <<8107, <<8043, 921>>>>,
      <<8108, <<8044, 921>>>>, <<8109, <<8045, 921>>>>,
      <<8110, <<8046, 921>>>>, <<8111, <<8047, 921>>>>,
      <<8114, <<8122, 921>>>>, <<8115, <<913, 921>>>>,
      <<8116, <<902, 921>>>>, <<8118, <<913, 834>>>>,
      <<8119, <<913, 834, 921>>>>, <<8124, <<913, 921>>>>,
      <<8130, <<8138, 921>>>>, <<8131, <<919, 921>>>>,
      <<8132, <<905, 921>>>>, <<8134, <<919, 834>>>>,
      <<8135, <<919, 834, 921>>>>, <<8140, <<919, 921>>>>,
      <<8146, <<921, 776, 768>>>>, <<8147, <<921, 776, 769>>>>,
      <<8150, <<921, 834>>>>, <<8151, <<921, 776, 834>>>>,
      <<8162, <<933, 776, 768>>>>, <<8163, <<933, 776, 769>>>>,
      <<8164, <<929, 787>>>>, <<8166, <<933, 834>>>>,
      <<8167, <<933, 776, 834>>>>, <<8178, <<8186, 921>>>>,
      <<8179, <<937, 921>>>>, <<8180, <<911, 921>>>>, <<8182, <<937, 834>>>>,
      <<8183, <<937, 834, 921>>>>, <<8188, <<937, 921>>>>,
      <<64256, <<70, 70>>>>, <<64257, <<70, 73>>>>, <<64258, <<70, 76>>>>,
      <<64259, <<70, 70, 73>>>>, <<64260, <<70, 70, 76>>>>,
      <<64261, <<83, 84>>>>, <<64262, <<83, 84>>>>,
      <<64275, <<1348, 1350>>>>, <<64276, <<1348, 1333>>>>,
      <<64277, <<1348, 1339>>>>, <<64278, <<1358, 1350>>>>,
      <<64279, <<1348, 1341>>>>>>

\* str.lower() of one character, likewise
ToLowerRanges ==
    <<<<65, 90, 1, 32>>, <<192, 214, 1, 32>>, <<216, 222, 1, 32>>,
      <<256, 302, 2, 1>>, <<306, 310, 2, 1>>, <<313, 327, 2, 1>>,
      <<330, 374, 2, 1>>, <<376, 376, 1, -121>>, <<377, 381, 2, 1>>,
      <<385, 385, 1, 210>>, <<386, 388, 2, 1>>, <<390, 390, 1, 206>>,
      <<391, 391, 1, 1>>, <<393, 394, 1, 205>>, <<395, 395, 1, 1>>,
      <<398, 398, 1, 79>>, <<399, 399, 1, 202>>, <<400, 400, 1, 203>>,
      <<401, 401, 1, 1>>, <<403, 403, 1, 205>>, <<404, 404, 1, 207>>,
      <<406, 406, 1, 211>>, <<407, 407, 1, 209>>, <<408, 408, 1, 1>>,
      <<412, 412, 1, 211>>, <<413, 413, 1, 213>>, <<415, 415, 1, 214>>,
      <<416, 420, 2, 1>>, <<422, 422, 1, 218>>, <<423, 423, 1, 1>>,
      <<425, 425, 1, 218>>, <<428, 428, 1, 1>>, <<430, 430, 1, 218>>,
      <<431, 431, 1, 1>>, <<433, 434, 1, 217>>, <<435, 437, 2, 1>>,
      <<439, 439, 1, 219>>, <<440, 440, 1, 1>>, <<444, 444, 1, 1>>,
      <<452, 452, 1, 2>>, <<453, 453, 1, 1>>, <<455, 455, 1, 2>>,
      <<456, 456, 1, 1>>, <<458, 458, 1, 2>>, <<459, 475, 2, 1>>,
      <<478, 494, 2, 1>>, <<497, 497, 1, 2>>, <<498, 500, 2, 1>>,
      <<502, 502, 1, -97>>, <<503, 503, 1, -56>>, <<504, 542, 2, 1>>,
      <<544, 544, 1, -130>>, <<546, 562, 2, 1>>, <<570, 570, 1, 10795>>,
      <<571, 571, 1, 1>>, <<573, 573, 1, -163>>, <<574, 574, 1, 10792>>,
      <<577, 577, 1, 1>>, <<579, 579, 1, -195>>, <<580, 580, 1, 69>>,
      <<581, 581, 1, 71>>, <<582, 590, 2, 1>>, <<880, 882, 2, 1>>,
      <<886, 886, 1, 1>>, <<895, 895, 1, 116>>, <<902, 902, 1, 38>>,
      <<904, 906, 1, 37>>, <<908, 908, 1, 64>>, <<910, 911, 1, 63>>,
      <<913, 929, 1, 32>>, <<931, 939, 1, 32>>, <<975, 975, 1, 8>>,
      <<984, 1006, 2, 1>>, <<1012, 1012, 1, -60>>, <<1015, 1015, 1, 1>>,
      <<1017, 1017, 1, -7>>, <<1018, 1018, 1, 1>>, <<1021, 1023, 1, -130>>,
      <<1024, 1039, 1, 80>>, <<1040, 1071, 1, 32>>, <<1120, 1152, 2, 1>>,
      <<1162, 1214, 2, 1>>, <<1216, 1216, 1, 15>>, <<1217, 1229, 2, 1>>,
      <<1232, 1326, 2, 1>>, <<1329, 1366, 1, 48>>, <<4256, 4293, 1, 7264>>,
      <<4295, 4295, 1, 7264>>, <<4301, 4301, 1, 7264>>,
      <<5024, 5103, 1, 38864>>, <<5104, 5109, 1, 8>>,
      <<7312, 7354, 1, -3008>>, <<7357, 7359, 1, -3008>>,
      <<7680, 7828, 2, 1>>, <<7838, 7838, 1, -7615>>, <<7840, 7934, 2, 1>>,
      <<7944, 7951, 1, -8>>, <<7960, 7965, 1, -8>>, <<7976, 7983, 1, -8>>,
      <<7992, 7999, 1, -8>>, <<8008, 8013, 1, -8>>, <<8025, 8031, 2, -8>>,
      <<8040, 8047, 1, -8>>, <<8072, 8079, 1, -8>>, <<8088, 8095, 1, -8>>,
      <<8104, 8111, 1, -8>>, <<8120, 8121, 1, -8>>, <<8122, 8123, 1, -74>>,
      <<8124, 8124, 1, -9>>, <<8136, 8139, 1, -86>>, <<8140, 8140, 1, -9>>,
      <<8152, 8153, 1, -8>>, <<8154, 8155, 1, -100>>, <<8168, 8169, 1, -8>>,
      <<8170, 8171, 1, -112>>, <<8172, 8172, 1, -7>>,
      <<8184, 8185, 1, -128>>, <<8186, 8187, 1, -126>>,
      <<8188, 8188, 1, -9>>, <<8486, 8486, 1, -7517>>,
      <<8490, 8490, 1, -8383>>, <<8491, 8491, 1, -8262>>,
      <<8498, 8498, 1, 28>>, <<8544, 8559, 1, 16>>, <<8579, 8579, 1, 1>>,
      <<9398, 9423, 1, 26>>, <<11264, 11311, 1, 48>>, <<11360, 11360, 1, 1>>,
      <<11362, 11362, 1, -10743>>, <<11363, 11363, 1, -3814>>,
      <<11364, 11364, 1, -10727>>, <<11367, 11371, 2, 1>>,
      <<11373, 11373, 1, -10780>>, <<11374, 11374, 1, -10749>>,
      <<11375, 11375, 1, -10783>>, <<11376, 11376, 1, -10782>>,
      <<11378, 11378, 1, 1>>, <<11381, 11381, 1, 1>>,
      <<11390, 11391, 1, -10815>>, <<11392, 11490, 2, 1>>,
      <<11499, 11501, 2, 1>>, <<11506, 11506, 1, 1>>, <<42560, 42604, 2, 1>>,
      <<42624, 42650, 2, 1>>, <<42786, 42798, 2, 1>>, <<42802, 42862, 2, 1>>,
      <<42873, 42875, 2, 1>>, <<42877, 42877, 1, -35332>>,
      <<42878, 42886, 2, 1>>, <<42891, 42891, 1, 1>>,
      <<42893, 42893, 1, -42280>>, <<42896, 42898, 2, 1>>,
      <<42902, 42920, 2, 1>>, <<42922, 42922, 1, -42308>>,
      <<42923, 42923, 1, -42319>>, <<42924, 42924, 1, -42315>>,
      <<42925, 42925, 1, -42305>>, <<42926, 42926, 1, -42308>>,
      <<42928, 42928, 1, -42258>>, <<42929, 42929, 1, -42282>>,
      <<42930, 42930, 1, -42261>>, <<42931, 42931, 1, 928>>,
      <<42932, 42946, 2, 1>>, <<42948, 42948, 1, -48>>,
      <<42949, 42949, 1, -42307>>, <<42950, 42950, 1, -35384>>,
      <<42951, 42953, 2, 1>>, <<42960, 42960, 1, 1>>, <<42966, 42968, 2, 1>>,
      <<42997, 42997, 1, 1>>, <<65313, 65338, 1, 32>>,
      <<66560, 66599, 1, 40>>, <<66736, 66771, 1, 40>>,
      <<66928, 66938, 1, 39>>, <<66940, 66954, 1, 39>>,
      <<66956, 66962, 1, 39>>, <<66964, 66965, 1, 39>>,
      <<68736, 68786, 1, 64>>, <<71840, 71871, 1, 32>>,
      <<93760, 93791, 1, 32>>, <<125184, 125217, 1, 34>>>>

\* str.lower() of the character it maps to several
ToLowerFull ==
    <<<<304, <<105, 775>>>>>>

\* The title case of the characters whose title case is not their upper case
ToTitleFull ==
    <<<<223, <<83, 115>>>>, <<452, <<453>>>>, <<453, <<453>>>>,
      <<454, <<453>>>>, <<455, <<456>>>>, <<456, <<456>>>>, <<457, <<456>>>>,
      <<458, <<459>>>>, <<459, <<459>>>>, <<460, <<459>>>>, <<497, <<498>>>>,
      <<498, <<498>>>>, <<499, <<498>>>>, <<1415, <<1333, 1410>>>>,
      <<4304, <<4304>>>>, <<4305, <<4305>>>>, <<4306, <<4306>>>>,
      <<4307, <<4307>>>>, <<4308, <<4308>>>>, <<4309, <<4309>>>>,
      <<4310, <<4310>>>>, <<4311, <<4311>>>>, <<4312, <<4312>>>>,
      <<4313, <<4313>>>>, <<4314, <<4314>>>>, <<4315, <<4315>>>>,
      <<4316, <<4316>>>>, <<4317, <<4317>>>>, <<4318, <<4318>>>>,
      <<4319, <<4319>>>>, <<4320, <<4320>>>>, <<4321, <<4321>>>>,
      <<4322, <<4322>>>>, <<4323, <<4323>>>>, <<4324, <<4324>>>>,
      <<4325, <<4325>>>>, <<4326, <<4326>>>>, <<4327, <<4327>>>>,
      <<4328, <<4328>>>>, <<4329, <<4329>>>>, <<4330, <<4330>>>>,
      <<4331, <<4331>>>>, <<4332, <<4332>>>>, <<4333, <<4333>>>>,
      <<4334, <<4334>>>>, <<4335, <<4335>>>>, <<4336, <<4336>>>>,
      <<4337, <<4337>>>>, <<4338, <<4338>>>>, <<4339, <<4339>>>>,
      <<4340, <<4340>>>>, <<4341, <<4341>>>>, <<4342, <<4342>>>>,
      <<4343, <<4343>>>>, <<4344, <<4344>>>>, <<4345, <<4345>>>>,
      <<4346, <<4346>>>>, <<4349, <<4349>>>>, <<4350, <<4350>>>>,
      <<4351, <<4351>>>>, <<8064, <<8072>>>>, <<8065, <<8073>>>>,
      <<8066, <<8074>>>>, <<8067, <<8075>>>>, <<8068, <<8076>>>>,
      <<8069, <<8077>>>>, <<8070, <<8078>>>>, <<8071, <<8079>>>>,
      <<8072, <<8072>>>>, <<8073, <<8073>>>>, <<8074, <<8074>>>>,
      <<8075, <<8075>>>>, <<8076, <<8076>>>>, <<8077, <<8077>>>>,
      <<8078, <<8078>>>>, <<8079, <<8079>>>>, <<8080, <<8088>>>>,
      <<8081, <<8089>>>>, <<8082, <<8090>>>>, <<8083, <<8091>>>>,
      <<8084, <<8092>>>>, <<8085, <<8093>>>>, <<8086, <<8094>>>>,
      <<8087, <<8095>>>>, <<8088, <<8088>>>>, <<8089, <<8089>>>>,
      <<8090, <<8090>>>>, <<8091, <<8091>>>>, <<8092, <<8092>>>>,
      <<8093, <<8093>>>>, <<8094, <<8094>>>>, <<8095, <<8095>>>>,
      <<8096, <<8104>>>>, <<8097, <<8105>>>>, <<8098, <<8106>>>>,
      <<8099, <<8107>>>>, <<8100, <<8108>>>>, <<8101, <<8109>>>>,
      <<8102, <<8110>>>>, <<8103, <<8111>>>>, <<8104, <<8104>>>>,
      <<8105, <<8105>>>>, <<8106, <<8106>>>>, <<8107, <<8107>>>>,
      <<8108, <<8108>>>>, <<8109, <<8109>>>>, <<8110, <<8110>>>>,
      <<8111, <<8111>>>>, <<8114, <<8122, 837>>>>, <<8115, <<8124>>>>,
      <<8116, <<902, 837>>>>, <<8119, <<913, 834, 837>>>>,
      <<8124, <<8124>>>>, <<8130, <<8138, 837>>>>, <<8131, <<8140>>>>,
      <<8132, <<905, 837>>>>, <<8135, <<919, 834, 837>>>>,
      <<8140, <<8140>>>>, <<8178, <<8186, 837>>>>, <<8179, <<8188>>>>,
      <<8180, <<911, 837>>>>, <<8183, <<937, 834, 837>>>>,
      <<8188, <<8188>>>>, <<64256, <<70, 102>>>>, <<64257, <<70, 105>>>>,
      <<64258, <<70, 108>>>>, <<64259, <<70, 102, 105>>>>,
      <<64260, <<70, 102, 108>>>>, <<64261, <<83, 116>>>>,
      <<64262, <<83, 116>>>>, <<64275, <<1348, 1398>>>>,
      <<64276, <<1348, 1381>>>>, <<64277, <<1348, 1387>>>>,
      <<64278, <<1358, 1398>>>>, <<64279, <<1348, 1389>>>>>>

\* The cased characters: <<first, last>>
CasedRanges ==
    <<<<65, 90>>, <<97, 122>>, <<170, 170>>, <<181, 181>>, <<186, 186>>,
      <<192, 214>>, <<216, 246>>, <<248, 442>>, <<444, 447>>, <<452, 659>>,
      <<661, 696>>, <<704, 705>>, <<736, 740>>, <<837, 837>>, <<880, 883>>,
      <<886, 887>>, <<890, 893>>, <<895, 895>>, <<902, 902>>, <<904, 906>>,
      <<908, 908>>, <<910, 929>>, <<931, 1013>>, <<1015, 1153>>,
      <<1162, 1327>>, <<1329, 1366>>, <<1376, 1416>>, <<4256, 4293>>,
      <<4295, 4295>>, <<4301, 4301>>, <<4304, 4346>>, <<4349, 4351>>,
      <<5024, 5109>>, <<5112, 5117>>, <<7296, 7304>>, <<7312, 7354>>,
      <<7357, 7359>>, <<7424, 7615>>, <<7680, 7957>>, <<7960, 7965>>,
      <<7968, 8005>>, <<8008, 8013>>, <<8016, 8023>>, <<8025, 8025>>,
      <<8027, 8027>>, <<8029, 8029>>, <<8031, 8061>>, <<8064, 8116>>,
      <<8118, 8124>>, <<8126, 8126>>, <<8130, 8132>>, <<8134, 8140>>,
      <<8144, 8147>>, <<8150, 8155>>, <<8160, 8172>>, <<8178, 8180>>,
      <<8182, 8188>>, <<8305, 8305>>, <<8319, 8319>>, <<8336, 8348>>,
      <<8450, 8450>>, <<8455, 8455>>, <<8458, 8467>>, <<8469, 8469>>,
      <<8473, 8477>>, <<8484, 8484>>, <<8486, 8486>>, <<8488, 8488>>,
      <<8490, 8493>>, <<8495, 8500>>, <<8505, 8505>>, <<8508, 8511>>,
      <<8517, 8521>>, <<8526, 8526>>, <<8544, 8575>>, <<8579, 8580>>,
      <<9398, 9449>>, <<11264, 11492>>, <<11499, 11502>>, <<11506, 11507>>,
      <<11520, 11557>>, <<11559, 11559>>, <<11565, 11565>>, <<42560, 42605>>,
      <<42624, 42653>>, <<42786, 42887>>, <<42891, 42894>>, <<42896, 42954>>,
      <<42960, 42961>>, <<42963, 42963>>, <<42965, 42969>>, <<42997, 42998>>,
      <<43000, 43002>>, <<43824, 43866>>, <<43868, 43880>>, <<43888, 43967>>,
      <<64256, 64262>>, <<64275, 64279>>, <<65313, 65338>>, <<65345, 65370>>,
      <<66560, 66639>>, <<66736, 66771>>, <<66776, 66811>>, <<66928, 66938>>,
      <<66940, 66954>>, <<66956, 66962>>, <<66964, 66965>>, <<66967, 66977>>,
      <<66979, 66993>>, <<66995, 67001>>, <<67003, 67004>>, <<67456, 67456>>,
      <<67459, 67461>>, <<67463, 67504>>, <<67506, 67514>>, <<68736, 68786>>,
      <<68800, 68850>>, <<71840, 71903>>, <<93760, 93823>>,
      <<119808, 119892>>, <<119894, 119964>>, <<119966, 119967>>,
      <<119970, 119970>>, <<119973, 119974>>, <<119977, 119980>>,
      <<119982, 119993>>, <<119995, 119995>>, <<119997, 120003>>,
      <<120005, 120069>>, <<120071, 120074>>, <<120077, 120084>>,
      <<120086, 120092>>, <<120094, 120121>>, <<120123, 120126>>,
      <<120128, 120132>>, <<120134, 120134>>, <<120138, 120144>>,
      <<120146, 120485>>, <<120488, 120512>>, <<120514, 120538>>,
      <<120540, 120570>>, <<120572, 120596>>, <<120598, 120628>>,
      <<120630, 120654>>, <<120656, 120686>>, <<120688, 120712>>,
      <<120714, 120744>>, <<120746, 120770>>, <<120772, 120779>>,
      <<122624, 122633>>, <<122635, 122654>>, <<125184, 125251>>,
      <<127280, 127305>>, <<127312, 127337>>, <<127344, 127369>>>>

\* The case-ignorable characters: <<first, last>>
CaseIgnorableRanges ==
    <<<<39, 39>>, <<46, 46>>, <<58, 58>>, <<94, 94>>, <<96, 96>>,
      <<168, 168>>, <<173, 173>>, <<175, 175>>, <<180, 180>>, <<183, 184>>,
      <<688, 879>>, <<884, 885>>, <<890, 890>>, <<900, 901>>, <<903, 903>>,
      <<1155, 1161>>, <<1369, 1369>>, <<1375, 1375>>, <<1425, 1469>>,
      <<1471, 1471>>, <<1473, 1474>>, <<1476, 1477>>, <<1479, 1479>>,
      <<1524, 1524>>, <<1536, 1541>>, <<1552, 1562>>, <<1564, 1564>>,
      <<1600, 1600>>, <<1611, 1631>>, <<1648, 1648>>, <<1750, 1757>>,
      <<1759, 1768>>, <<1770, 1773>>, <<1807, 1807>>, <<1809, 1809>>,
      <<1840, 1866>>, <<1958, 1968>>, <<2027, 2037>>, <<2042, 2042>>,
      <<2045, 2045>>, <<2070, 2093>>, <<2137, 2139>>, <<2184, 2184>>,
      <<2192, 2193>>, <<2200, 2207>>, <<2249, 2306>>, <<2362, 2362>>,
      <<2364, 2364>>, <<2369, 2376>>, <<2381, 2381>>, <<2385, 2391>>,
      <<2402, 2403>>, <<2417, 2417>>, <<2433, 2433>>, <<2492, 2492>>,
      <<2497, 2500>>, <<2509, 2509>>, <<2530, 2531>>, <<2558, 2558>>,
      <<2561, 2562>>, <<2620, 2620>>, <<2625, 2626>>, <<2631, 2632>>,
      <<2635, 2637>>, <<2641, 2641>>, <<2672, 2673>>, <<2677, 2677>>,
      <<2689, 2690>>, <<2748, 2748>>, <<2753, 2757>>, <<2759, 2760>>,
      <<2765, 2765>>, <<2786, 2787>>, <<2810, 2815>>, <<2817, 2817>>,
      <<2876, 2876>>, <<2879, 2879>>, <<2881, 2884>>, <<2893, 2893>>,
      <<2901, 2902>>, <<2914, 2915>>, <<2946, 2946>>, <<3008, 3008>>,
      <<3021, 3021>>, <<3072, 3072>>, <<3076, 3076>>, <<3132, 3132>>,
      <<3134, 3136>>, <<3142, 3144>>, <<3146, 3149>>, <<3157, 3158>>,
      <<3170, 3171>>, <<3201, 3201>>, <<3260, 3260>>, <<3263, 3263>>,
      <<3270, 3270>>, <<3276, 3277>>, <<3298, 3299>>, <<3328, 3329>>,
      <<3387, 3388>>, <<3393, 3396>>, <<3405, 3405>>, <<3426, 3427>>,
      <<3457, 3457>>, <<3530, 3530>>, <<3538, 3540>>, <<3542, 3542>>,
      <<3633, 3633>>, <<3636, 3642>>, <<3654, 3662>>, <<3761, 3761>>,
      <<3764, 3772>>, <<3782, 3782>>, <<3784, 3789>>, <<3864, 3865>>,
      <<3893, 3893>>, <<3895, 3895>>, <<3897, 3897>>, <<3953, 3966>>,
      <<3968, 3972>>, <<3974, 3975>>, <<3981, 3991>>, <<3993, 4028>>,
      <<4038, 4038>>, <<4141, 4144>>, <<4146, 4151>>, <<4153, 4154>>,
      <<4157, 4158>>, <<4184, 4185>>, <<4190, 4192>>, <<4209, 4212>>,
      <<4226, 4226>>, <<4229, 4230>>, <<4237, 4237>>, <<4253, 4253>>,
      <<4348, 4348>>, <<4957, 4959>>, <<5906, 5908>>, <<5938, 5939>>,
      <<5970, 5971>>, <<6002, 6003>>, <<6068, 6069>>, <<6071, 6077>>,
      <<6086, 6086>>, <<6089, 6099>>, <<6103, 6103>>, <<6109, 6109>>,
      <<6155, 6159>>, <<6211, 6211>>, <<6277, 6278>>, <<6313, 6313>>,
      <<6432, 6434>>, <<6439, 6440>>, <<6450, 6450>>, <<6457, 6459>>,
      <<6679, 6680>>, <<6683, 6683>>, <<6742, 6742>>, <<6744, 6750>>,
      <<6752, 6752>>, <<6754, 6754>>, <<6757, 6764>>, <<6771, 6780>>,
      <<6783, 6783>>, <<6823, 6823>>, <<6832, 6862>>, <<6912, 6915>>,
      <<6964, 6964>>, <<6966, 6970>>, <<6972, 6972>>, <<6978, 6978>>,
      <<7019, 7027>>, <<7040, 7041>>, <<7074, 7077>>, <<7080, 7081>>,
      <<7083, 7085>>, <<7142, 7142>>, <<7144, 7145>>, <<7149, 7149>>,
      <<7151, 7153>>, <<7212, 7219>>, <<7222, 7223>>, <<7288, 7293>>,
      <<7376, 7378>>, <<7380, 7392>>, <<7394, 7400>>, <<7405, 7405>>,
      <<7412, 7412>>, <<7416, 7417>>, <<7468, 7530>>, <<7544, 7544>>,
      <<7579, 7679>>, <<8125, 8125>>, <<8127, 8129>>, <<8141, 8143>>,
      <<8157, 8159>>, <<8173, 8175>>, <<8189, 8190>>, <<8203, 8207>>,
      <<8216, 8217>>, <<8228, 8228>>, <<8231, 8231>>, <<8234, 8238>>,
      <<8288, 8292>>, <<8294, 8303>>, <<8305, 8305>>, <<8319, 8319>>,
      <<8336, 8348>>, <<8400, 8432>>, <<11388, 11389>>, <<11503, 11505>>,
      <<11631, 11631>>, <<11647, 11647>>, <<11744, 11775>>, <<11823, 11823>>,
      <<12293, 12293>>, <<12330, 12333>>, <<12337, 12341>>, <<12347, 12347>>,
      <<12441, 12446>>, <<12540, 12542>>, <<40981, 40981>>, <<42232, 42237>>,
      <<42508, 42508>>, <<42607, 42610>>, <<42612, 42621>>, <<42623, 42623>>,
      <<42652, 42655>>, <<42736, 42737>>, <<42752, 42785>>, <<42864, 42864>>,
      <<42888, 42890>>, <<42994, 42996>>, <<43000, 43001>>, <<43010, 43010>>,
      <<43014, 43014>>, <<43019, 43019>>, <<43045, 43046>>, <<43052, 43052>>,
      <<43204, 43205>>, <<43232, 43249>>, <<43263, 43263>>, <<43302, 43309>>,
      <<43335, 43345>>, <<43392, 43394>>, <<43443, 43443>>, <<43446, 43449>>,
      <<43452, 43453>>, <<43471, 43471>>, <<43493, 43494>>, <<43561, 43566>>,
      <<43569, 43570>>, <<43573, 43574>>, <<43587, 43587>>, <<43596, 43596>>,
      <<43632, 43632>>, <<43644, 43644>>, <<43696, 43696>>, <<43698, 43700>>,
      <<43703, 43704>>, <<43710, 43711>>, <<43713, 43713>>, <<43741, 43741>>,
      <<43756, 43757>>, <<43763, 43764>>, <<43766, 43766>>, <<43867, 43871>>,
      <<43881, 43883>>, <<44005, 44005>>, <<44008, 44008>>, <<44013, 44013>>,
      <<64286, 64286>>, <<64434, 64450>>, <<65024, 65039>>, <<65043, 65043>>,
      <<65056, 65071>>, <<65106, 65106>>, <<65109, 65109>>, <<65279, 65279>>,
      <<65287, 65287>>, <<65294, 65294>>, <<65306, 65306>>, <<65342, 65342>>,
      <<65344, 65344>>, <<65392, 65392>>, <<65438, 65439>>, <<65507, 65507>>,
      <<65529, 65531>>, <<66045, 66045>>, <<66272, 66272>>, <<66422, 66426>>,
      <<67456, 67461>>, <<67463, 67504>>, <<67506, 67514>>, <<68097, 68099>>,
      <<68101, 68102>>, <<68108, 68111>>, <<68152, 68154>>, <<68159, 68159>>,
      <<68325, 68326>>, <<68900, 68903>>, <<69291, 69292>>, <<69446, 69456>>,
      <<69506, 69509>>, <<69633, 69633>>, <<69688, 69702>>, <<69744, 69744>>,
      <<69747, 69748>>, <<69759, 69761>>, <<69811, 69814>>, <<69817, 69818>>,
      <<69821, 69821>>, <<69826, 69826>>, <<69837, 69837>>, <<69888, 69890>>,
      <<69927, 69931>>, <<69933, 69940>>, <<70003, 70003>>, <<70016, 70017>>,
      <<70070, 70078>>, <<70089, 70092>>, <<70095, 70095>>, <<70191, 70193>>,
      <<70196, 70196>>, <<70198, 70199>>, <<70206, 70206>>, <<70367, 70367>>,
      <<70371, 70378>>, <<70400, 70401>>, <<70459, 70460>>, <<70464, 70464>>,
      <<70502, 70508>>, <<70512, 70516>>, <<70712, 70719>>, <<70722, 70724>>,
      <<70726, 70726>>, <<70750, 70750>>, <<70835, 70840>>, <<70842, 70842>>,
      <<70847, 70848>>, <<70850, 70851>>, <<71090, 71093>>, <<71100, 71101>>,
      <<71103, 71104>>, <<71132, 71133>>, <<71219, 71226>>, <<71229, 71229>>,
      <<71231, 71232>>, <<71339, 71339>>, <<71341, 71341>>, <<71344, 71349>>,
      <<71351, 71351>>, <<71453, 71455>>, <<71458, 71461>>, <<71463, 71467>>,
      <<71727, 71735>>, <<71737, 71738>>, <<71995, 71996>>, <<71998, 71998>>,
      <<72003, 72003>>, <<72148, 72151>>, <<72154, 72155>>, <<72160, 72160>>,
      <<72193, 72202>>, <<72243, 72248>>, <<72251, 72254>>, <<72263, 72263>>,
      <<72273, 72278>>, <<72281, 72283>>, <<72330, 72342>>, <<72344, 72345>>,
      <<72752, 72758>>, <<72760, 72765>>, <<72767, 72767>>, <<72850, 72871>>,
      <<72874, 72880>>, <<72882, 72883>>, <<72885, 72886>>, <<73009, 73014>>,
      <<73018, 73018>>, <<73020, 73021>>, <<73023, 73029>>, <<73031, 73031>>,
      <<73104, 73105>>, <<73109, 73109>>, <<73111, 73111>>, <<73459, 73460>>,
      <<78896, 78904>>, <<92912, 92916>>, <<92976, 92982>>, <<92992, 92995>>,
      <<94031, 94031>>, <<94095, 94111>>, <<94176, 94177>>, <<94179, 94180>>,
      <<110576, 110579>>, <<110581, 110587>>, <<110589, 110590>>,
      <<113821, 113822>>, <<113824, 113827>>, <<118528, 118573>>,
      <<118576, 118598>>, <<119143, 119145>>, <<119155, 119170>>,
      <<119173, 119179>>, <<119210, 119213>>, <<119362, 119364>>,
      <<121344, 121398>>, <<121403, 121452>>, <<121461, 121461>>,
      <<121476, 121476>>, <<121499, 121503>>, <<121505, 121519>>,
      <<122880, 122886>>, <<122888, 122904>>, <<122907, 122913>>,
      <<122915, 122916>>, <<122918, 122922>>, <<123184, 123197>>,
      <<123566, 123566>>, <<123628, 123631>>, <<125136, 125142>>,
      <<125252, 125259>>, <<127995, 127999>>, <<917505, 917505>>,
      <<917536, 917631>>, <<917760, 917999>>>>

\* The case-ignorable characters that are written as themselves
AsciiCaseIgnorable == "'.:^"

AsciiLower == Range(Str(LowerCase))
AsciiUpper == Range(Str(UpperCase))
AsciiIgnorable == Range(Str(AsciiCaseIgnorable))

InStep(r, n) == r[1] <= n /\ n <= r[2] /\ (n - r[1]) % r[3] = 0

\* The image of code point n under a table of <<first, last, step, delta>>
Shifted(ranges, n) ==
    IF \E i \in 1..Len(ranges) : InStep(ranges[i], n)
    THEN n + ranges[CHOOSE i \in 1..Len(ranges) : InStep(ranges[i], n)][4]
    ELSE n

Listed(full, n) == \E i \in 1..Len(full) : full[i][1] = n
ImageOf(full, n) == full[CHOOSE i \in 1..Len(full) : full[i][1] = n][2]

InRanges(ranges, n) == \E i \in 1..Len(ranges) : ranges[i][1] <= n /\ n <= ranges[i][2]

\* The upper, lower and title case of a code point, as code points
ToUpperFullOf(n) ==
    IF Listed(ToUpperFull, n) THEN ImageOf(ToUpperFull, n) ELSE <<Shifted(ToUpperRanges, n)>>
ToLowerFullOf(n) ==
    IF Listed(ToLowerFull, n) THEN ImageOf(ToLowerFull, n) ELSE <<Shifted(ToLowerRanges, n)>>
ToTitleFullOf(n) ==
    IF Listed(ToTitleFull, n) THEN ImageOf(ToTitleFull, n) ELSE ToUpperFullOf(n)

Chars(codes) == [i \in 1..Len(codes) |-> chr(codes[i])]

\* c.upper(), c.lower() and c.title() of one character c: a str, of more
\* than one character for some c. An ASCII character is looked up in
\* LowerCase and UpperCase, as the tables have it
UpperChar(c) ==
    IF Len(c) = 1
    THEN <<IF c \in AsciiLower THEN CharAt(UpperCase, IndexOf(LowerCase, c)) ELSE c>>
    ELSE Chars(ToUpperFullOf(ord(c)))

LowerChar(c) ==
    IF Len(c) = 1
    THEN <<IF c \in AsciiUpper THEN CharAt(LowerCase, IndexOf(UpperCase, c)) ELSE c>>
    ELSE Chars(ToLowerFullOf(ord(c)))

TitleChar(c) == IF Len(c) = 1 THEN UpperChar(c) ELSE Chars(ToTitleFullOf(ord(c)))

IsCased(c) ==
    IF Len(c) = 1 THEN c \in AsciiLower \cup AsciiUpper ELSE InRanges(CasedRanges, ord(c))
IsCaseIgnorable(c) ==
    IF Len(c) = 1 THEN c \in AsciiIgnorable ELSE InRanges(CaseIgnorableRanges, ord(c))

\* Going back from position j of s over the case-ignorable characters, a
\* cased character is met; and likewise going forward
RECURSIVE CasedBefore(_, _)
CasedBefore(s, j) ==
    IF j < 1 THEN FALSE
    ELSE IF IsCaseIgnorable(s[j]) THEN CasedBefore(s, j - 1)
    ELSE IsCased(s[j])

RECURSIVE CasedAfter(_, _)
CasedAfter(s, j) ==
    IF j > Len(s) THEN FALSE
    ELSE IF IsCaseIgnorable(s[j]) THEN CasedAfter(s, j + 1)
    ELSE IsCased(s[j])

\* The lower case of the i-th character of s: a capital sigma at the end of
\* a word becomes the final sigma
lower_ucs4(s, i) ==
    IF s[i] = "U+03A3"
    THEN <<IF CasedBefore(s, i - 1) /\ ~CasedAfter(s, i + 1) THEN "U+03C2" ELSE "U+03C3">>
    ELSE LowerChar(s[i])

\* str.upper()
RECURSIVE upper(_)
upper(s) ==
    IF Len(s) = 0 THEN <<>>
    ELSE upper(SubSeq(s, 1, Len(s) - 1)) \o UpperChar(s[Len(s)])

\* str.lower()
RECURSIVE LowerThrough(_, _)
LowerThrough(s, n) == IF n = 0 THEN <<>> ELSE LowerThrough(s, n - 1) \o lower_ucs4(s, n)

lower(s) == LowerThrough(s, Len(s))

\* str.title(): a character is in lower case after a cased character and
\* in title case elsewhere
RECURSIVE TitleThrough(_, _)
TitleThrough(s, n) ==
    IF n = 0 THEN <<>>
    ELSE TitleThrough(s, n - 1)
           \o (IF n > 1 /\ IsCased(s[n - 1]) THEN lower_ucs4(s, n) ELSE TitleChar(s[n]))

title(s) == TitleThrough(s, Len(s))

\* sub in s
Contains(s, sub) ==
    \E i \in 0..(Len(s) - Len(sub)) : SubSeq(s, i + 1, i + Len(sub)) = sub

\* f"{v:.0f}" and f"{v:.1f}" of a float with an integer value v
Format0f(v) == IF v < 0 THEN <<"-">> \o IntToStr(-v) ELSE IntToStr(v)
Format1f(v) == Format0f(v) \o Str(".0")

\* ", ".join(names)
RECURSIVE Join(_)
Join(names) ==
    IF names = <<>> THEN <<>>
    ELSE IF Len(names) = 1 THEN names[1]
    ELSE Join(Front(names)) \o Str(", ") \o Last(names)

Severity == [FAULT |-> "fault", CASCADE |-> "cascade"]

\* The strs of a sequence of TLA+ strings
Strs(literals) == [k \in 1..Len(literals) |-> Str(literals[k])]

\* One entry of the SUBSYSTEMS dict, in the dict's order; an entry without
\* an "upstream" key has upstream <<>>. The keys of the dict are kept as
\* TLA+ strings; the name, the groups and the indicators are strs
Subsystem(id, name, priority, groups, indicators, upstream) ==
    [id |-> id, name |-> Str(name), priority |-> priority, groups |-> Strs(groups),
     indicators |-> Strs(indicators), upstream |-> upstream]

SUBSYSTEMS ==
    << Subsystem("valve", "Valve/Actuator", 1, <<"valve", "chw", "damper">>,
                 <<"VLV", "VALVE", "DMPR", "DAMPER", "CMD", "POS">>, <<>>),
       Subsystem("sat", "Supply Air Temperature", 2, <<"sat">>,
                 <<"SAT", "SA-TEMP", "SA_TEMP", "SUPPLY">>, <<"valve">>),
       Subsystem("vav", "VAV Box", 3, <<"vav">>,
                 <<"VAV", "BOX", "TERMINAL">>, <<"sat">>),
       Subsystem("chw", "Chilled Water", 2, <<"chw">>,
                 <<"CHW", "CHWC", "CHILLER">>, <<"valve">>),
       Subsystem("zone", "Zone Comfort", 4, <<"zone">>,
                 <<"RM-TEMP", "RM_TEMP", "ROOM", "ZONE", "RMCLG", "RMHTG">>,
                 <<"sat", "vav", "chw">>),
       Subsystem("imu", "IMU Sensors", 1, <<"imu", "custom">>,
                 <<"IMU", "ACC", "GYR">>, <<>>),
       Subsystem("baro", "Barometer", 1, <<"baro">>,
                 <<"BARO", "ALT", "PRESS">>, <<>>),
       Subsystem("gps", "GPS", 1, <<"gps">>,
                 <<"GPS", "LAT", "LNG", "SPD">>, <<>>) >>

\* key in SUBSYSTEMS, SUBSYSTEMS[key]
HasSubsystem(subsystems, id) == \E i \in 1..Len(subsystems) : subsystems[i].id = id

GetSubsystem(subsystems, id) ==
    subsystems[CHOOSE i \in 1..Len(subsystems) : subsystems[i].id = id]

\* SUBSYSTEMS.get(id, {}).get("upstream", [])
UpstreamOf(subsystems, id) ==
    IF HasSubsystem(subsystems, id) THEN GetSubsystem(subsystems, id).upstream ELSE <<>>

\* SUBSYSTEMS.get(id, {}).get("priority", 99)
PriorityOf(subsystems, id) ==
    IF HasSubsystem(subsystems, id) THEN GetSubsystem(subsystems, id).priority ELSE 99

\* SUBSYSTEMS.get(id, {}).get("name", id)
NameOf(subsystems, id) ==
    IF HasSubsystem(subsystems, id) THEN GetSubsystem(subsystems, id).name ELSE Str(id)

\* The four rules of CAUSAL_RULES, in order
CAUSAL_RULES ==
    << [name |-> "valve_causes_sat", root |-> "valve", cascades |-> <<"sat">>,
        message |-> Str("Supply Air Temperature deviation due to valve mismatch")],
       [name |-> "sat_causes_zone", root |-> "sat", cascades |-> <<"zone">>,
        message |-> Str("Zone comfort deviation due to Supply Air Temperature fault")],
       [name |-> "valve_causes_zone", root |-> "valve", cascades |-> <<"zone">>,
        message |-> Str("Zone comfort deviation due to valve actuator fault")],
       [name |-> "chw_causes_sat", root |-> "chw", cascades |-> <<"sat">>,
        message |-> Str("Supply Air Temperature deviation due to chilled water fault")] >>

\* any(f["subsystem"] == s and f["status"] == "FAULT" for f in faults)
AnyFault(faults, s) ==
    \E i \in 1..Len(faults) : faults[i].subsystem = s /\ faults[i].status = "FAULT"

\* rule["condition"](faults)
RuleCondition(rule, faults) ==
    CASE rule.name = "valve_causes_sat" ->
            AnyFault(faults, "valve") /\ AnyFault(faults, "sat")
      [] rule.name = "sat_causes_zone" ->
            AnyFault(faults, "sat") /\ AnyFault(faults, "zone")
      [] rule.name = "valve_causes_zone" ->
            /\ AnyFault(faults, "valve") /\ AnyFault(faults, "zone")
            /\ ~AnyFault(faults, "sat")
      [] rule.name = "chw_causes_sat" ->
            AnyFault(faults, "chw") /\ AnyFault(faults, "sat")

\* A pair result as the aggregator reads it: group, name, col_a, col_b and
\* unit are strs. The unit is given as a text, since the unit of the tests,
\* the degree sign and F, is <<"U+00B0", "F">>
PairResult(group, name, status, val_a, val_b, unit, pair_type) ==
    [group |-> Str(group), name |-> Str(name), status |-> status, col_a |-> <<>>,
     col_b |-> <<>>, val_a |-> val_a, val_b |-> val_b, unit |-> unit,
     pair_type |-> pair_type]

IndicatorMatch(subsys, name, col_a, col_b) ==
    \E k \in 1..Len(subsys.indicators) :
        \/ Contains(name, subsys.indicators[k])
        \/ Contains(col_a, subsys.indicators[k])
        \/ Contains(col_b, subsys.indicators[k])

\* The test of one SUBSYSTEMS entry in the loop of identify_subsystem: the
\* group is one of its groups, or one of its indicators is in a name
SubsystemMatch(subsys, group, name, col_a, col_b) ==
    \/ \E g \in 1..Len(subsys.groups) : subsys.groups[g] = group
    \/ IndicatorMatch(subsys, name, col_a, col_b)

\* The loop over SUBSYSTEMS.items(): the id of the first entry that matches
FirstMatch(subsystems, group, name, col_a, col_b) ==
    IF \E i \in 1..Len(subsystems) : SubsystemMatch(subsystems[i], group, name, col_a, col_b)
    THEN subsystems[CHOOSE i \in 1..Len(subsystems) :
                        /\ SubsystemMatch(subsystems[i], group, name, col_a, col_b)
                        /\ \A j \in 1..(i - 1) :
                              ~SubsystemMatch(subsystems[j], group, name, col_a, col_b)].id
    ELSE "other"

identify_subsystem(subsystems, fault) ==
    FirstMatch(subsystems, lower(fault.group), upper(fault.name),
               upper(fault.col_a), upper(fault.col_b))

generate_human_message(fault, subsystem) ==
    LET name == fault.name
        status == fault.status
        val_a == fault.val_a
        val_b == fault.val_b
        unit == fault.unit
        pair_type == fault.pair_type
    IN IF status # "FAULT" THEN name \o Str(": ") \o Str(status)
       ELSE IF val_a = None \/ val_b = None THEN name \o Str(": Sensor data missing")
       ELSE LET a == val_a.v
                b == val_b.v
                delta == Abs(a - b)
            IN IF pair_type = "cmd_pos"
               THEN IF a > 90 /\ b < 10
                    THEN name \o Str(" stuck closed (commanding ") \o Format0f(a)
                           \o Str("% but at ") \o Format0f(b) \o Str("%)")
                    ELSE IF a < 10 /\ b > 90
                    THEN name \o Str(" stuck open (commanding ") \o Format0f(a)
                           \o Str("% but at ") \o Format0f(b) \o Str("%)")
                    ELSE name \o Str(" not following command (") \o Format0f(a)
                           \o Str("% cmd vs ") \o Format0f(b) \o Str("% actual)")
               ELSE IF subsystem = "sat"
               THEN Str(IF b > a THEN "Supply air too warm (" ELSE "Supply air too cold (")
                      \o Format1f(b) \o unit \o Str(" vs setpoint ") \o Format1f(a)
                      \o unit \o Str(")")
               ELSE IF subsystem = "zone"
               THEN Str(IF b > a THEN "Zone overheating (" ELSE "Zone too cold (")
                      \o Format1f(b) \o unit \o Str(" vs setpoint ") \o Format1f(a)
                      \o unit \o Str(")")
               ELSE name \o Str(": deviation of ") \o Format1f(delta) \o unit

\* The faults of pair_results, each with its subsystem and human_message set
\* fault["subsystem"] = ...; fault["human_message"] = ...: the dict of one
\* fault with the two keys set
Annotated(subsystems, fault) ==
    LET subsystem == identify_subsystem(subsystems, fault)
    IN [group |-> fault.group, name |-> fault.name, status |-> fault.status,
        col_a |-> fault.col_a, col_b |-> fault.col_b, val_a |-> fault.val_a,
        val_b |-> fault.val_b, unit |-> fault.unit,
        pair_type |-> fault.pair_type, subsystem |-> subsystem,
        human_message |-> generate_human_message(fault, subsystem)]

AnnotatedFaults(subsystems, pair_results) ==
    LET faults == SelectSeq(pair_results, LAMBDA p : p.status = "FAULT")
    IN [i \in 1..Len(faults) |-> Annotated(subsystems, faults[i])]

\* The caller's list after the call: the dicts of the faults are annotated
\* in place, the other dicts are left as they were
AnnotatedInPlace(subsystems, pair_results) ==
    [i \in 1..Len(pair_results) |->
        IF pair_results[i].status = "FAULT"
        THEN Annotated(subsystems, pair_results[i])
        ELSE pair_results[i]]

\* The keys of by_subsystem, in the order of their first fault
RECURSIVE BySubsystemKeys(_)
BySubsystemKeys(faults) ==
    IF faults = <<>> THEN <<>>
    ELSE LET keys == BySubsystemKeys(Front(faults))
             subsys == Last(faults).subsystem
         IN IF subsys \in Range(keys) THEN keys ELSE Append(keys, subsys)

\* by_subsystem[subsys]
BySubsystem(faults, subsys) == SelectSeq(faults, LAMBDA f : f.subsystem = subsys)

\* The loop over CAUSAL_RULES: applied_rules keeps, for a cascade, the rule
\* assigned last
ApplyCausalRules(faults) ==
    LET firing == {i \in 1..Len(CAUSAL_RULES) : RuleCondition(CAUSAL_RULES[i], faults)}
        cascade_subsystems == UNION {Range(CAUSAL_RULES[i].cascades) : i \in firing}
    IN [root_subsystems |-> {CAUSAL_RULES[i].root : i \in firing},
        cascade_subsystems |-> cascade_subsystems,
        applied_rules |->
            [c \in cascade_subsystems |->
                LET naming == {i \in firing : c \in Range(CAUSAL_RULES[i].cascades)}
                IN CAUSAL_RULES[CHOOSE i \in naming : \A j \in naming : j <= i]]]

\* The (child, upstream) pairs in the order the reverse map is filled
RECURSIVE UpstreamEdges(_)
UpstreamEdges(subsystems) ==
    IF subsystems = <<>> THEN <<>>
    ELSE LET child == Last(subsystems)
         IN UpstreamEdges(Front(subsystems))
              \o [k \in 1..Len(child.upstream) |-> <<child.id, child.upstream[k]>>]

\* reverse_upstream_map.get(subsys_id, [])
reverse_upstream_map(subsystems, subsys_id) ==
    LET edges == SelectSeq(UpstreamEdges(subsystems), LAMBDA e : e[2] = subsys_id)
    IN [k \in 1..Len(edges) |-> edges[k][1]]

\* The sets a walk shares between its calls, with the order of the visits
\* and the number of calls made
NewWalk == [visited |-> {}, found |-> {}, order |-> <<>>, calls |-> 0, result |-> FALSE]

RECURSIVE _collect_faulty_upstreams_PathGuard(_, _, _, _)
RECURSIVE CollectEachUpstream_PathGuard(_, _, _, _, _)
\* _collect_faulty_upstreams with a visited set of the current path only
_collect_faulty_upstreams_PathGuard(subsystems, faulty_subsystems, subsys_id, walk) ==
    IF subsys_id \in walk.visited THEN [walk EXCEPT !.calls = @ + 1]
    ELSE LET entered == CollectEachUpstream_PathGuard(
                            subsystems, faulty_subsystems,
                            UpstreamOf(subsystems, subsys_id), 1,
                            [walk EXCEPT !.visited = @ \cup {subsys_id},
                                         !.order = Append(@, subsys_id),
                                         !.calls = @ + 1])
         IN [entered EXCEPT !.visited = walk.visited]

CollectEachUpstream_PathGuard(subsystems, faulty_subsystems, upstreams, i, walk) ==
    IF i > Len(upstreams) THEN walk
    ELSE LET upstream == upstreams[i]
             noted == IF upstream \in faulty_subsystems
                      THEN [walk EXCEPT !.found = @ \cup {upstream}]
                      ELSE walk
         IN CollectEachUpstream_PathGuard(
                subsystems, faulty_subsystems, upstreams, i + 1,
                _collect_faulty_upstreams_PathGuard(
                    subsystems, faulty_subsystems, upstream, noted))

RECURSIVE _collect_faulty_upstreams(_, _, _, _)
RECURSIVE CollectEachUpstream(_, _, _, _, _)
_collect_faulty_upstreams(subsystems, faulty_subsystems, subsys_id, walk) ==
    IF subsys_id \in walk.visited THEN [walk EXCEPT !.calls = @ + 1]
    ELSE CollectEachUpstream(subsystems, faulty_subsystems,
                             UpstreamOf(subsystems, subsys_id), 1,
                             [walk EXCEPT !.visited = @ \cup {subsys_id},
                                          !.order = Append(@, subsys_id),
                                          !.calls = @ + 1])

\* for upstream in ...: the loop of _collect_faulty_upstreams from index i
CollectEachUpstream(subsystems, faulty_subsystems, upstreams, i, walk) ==
    IF i > Len(upstreams) THEN walk
    ELSE LET upstream == upstreams[i]
             noted == IF upstream \in faulty_subsystems
                      THEN [walk EXCEPT !.found = @ \cup {upstream}]
                      ELSE walk
         IN CollectEachUpstream(
                subsystems, faulty_subsystems, upstreams, i + 1,
                _collect_faulty_upstreams(subsystems, faulty_subsystems, upstream, noted))

\* A stable sort of subsystem ids by priority
RECURSIVE SortedByPriority(_, _)
SortedByPriority(subsystems, ids) ==
    IF ids = <<>> THEN <<>>
    ELSE LET sorted == SortedByPriority(subsystems, Front(ids))
             u == Last(ids)
             before == SelectSeq(sorted, LAMBDA v :
                          PriorityOf(subsystems, v) <= PriorityOf(subsystems, u))
             after == SelectSeq(sorted, LAMBDA v :
                          PriorityOf(subsystems, v) > PriorityOf(subsystems, u))
         IN before \o <<u>> \o after

\* get_faulty_upstreams without the sort by priority
get_faulty_upstreams_Unsorted(subsystems, faulty_subsystems, subsys_id, hash_order) ==
    LET found == _collect_faulty_upstreams(subsystems, faulty_subsystems,
                                           subsys_id, NewWalk).found
    IN SelectSeq(hash_order, LAMBDA u : u \in found)

\* get_faulty_upstreams; hash_order is the iteration order of the set found
\* that this call has built
get_faulty_upstreams(subsystems, faulty_subsystems, subsys_id, hash_order) ==
    LET found == _collect_faulty_upstreams(subsystems, faulty_subsystems,
                                           subsys_id, NewWalk).found
    IN SortedByPriority(subsystems, SelectSeq(hash_order, LAMBDA u : u \in found))

\* has_faulty_downstream finding no faulting subsystem downstream
has_faulty_downstream_Never(subsystems, faulty_subsystems, subsys_id, walk) ==
    [walk EXCEPT !.visited = @ \cup {subsys_id},
                 !.order = Append(@, subsys_id),
                 !.calls = @ + 1,
                 !.result = FALSE]

\* has_faulty_downstream looking at the direct children only
has_faulty_downstream_Direct(subsystems, faulty_subsystems, subsys_id, walk) ==
    [walk EXCEPT !.visited = @ \cup {subsys_id},
                 !.order = Append(@, subsys_id),
                 !.calls = @ + 1,
                 !.result = \E k \in DOMAIN reverse_upstream_map(subsystems, subsys_id) :
                               reverse_upstream_map(subsystems, subsys_id)[k]
                                   \in faulty_subsystems]

RECURSIVE has_faulty_downstream(_, _, _, _)
RECURSIVE AnyChildFaulty(_, _, _, _, _)
\* has_faulty_downstream; the value returned is the walk's result
has_faulty_downstream(subsystems, faulty_subsystems, subsys_id, walk) ==
    IF subsys_id \in walk.visited
    THEN [walk EXCEPT !.result = FALSE, !.calls = @ + 1]
    ELSE AnyChildFaulty(subsystems, faulty_subsystems,
                        reverse_upstream_map(subsystems, subsys_id), 1,
                        [walk EXCEPT !.visited = @ \cup {subsys_id},
                                     !.order = Append(@, subsys_id),
                                     !.calls = @ + 1])

\* for child_id in ...: the loop of has_faulty_downstream from index i
AnyChildFaulty(subsystems, faulty_subsystems, children, i, walk) ==
    IF i > Len(children) THEN [walk EXCEPT !.result = FALSE]
    ELSE IF children[i] \in faulty_subsystems THEN [walk EXCEPT !.result = TRUE]
    ELSE LET below == has_faulty_downstream(subsystems, faulty_subsystems,
                                            children[i], walk)
         IN IF below.result THEN below
            ELSE AnyChildFaulty(subsystems, faulty_subsystems, children, i + 1, below)

\* AggregatedFault with message and details_message exchanged
AggregatedFault_DetailsSwapped(subsystem, subsystem_name, fault_type, severity, primary_fault, cascades, message, details_message, rule_applied) ==
    [subsystem |-> subsystem, subsystem_name |-> subsystem_name,
     fault_type |-> fault_type, severity |-> severity,
     primary_fault |-> primary_fault, cascades |-> cascades,
     message |-> details_message, details_message |-> message,
     rule_applied |-> rule_applied, cascade_count |-> Len(cascades)]

\* AggregatedFault(...).to_dict(); rule_applied is <<>> for None
AggregatedFault(subsystem, subsystem_name, fault_type, severity, primary_fault, cascades, message, details_message, rule_applied) ==
    [subsystem |-> subsystem, subsystem_name |-> subsystem_name,
     fault_type |-> fault_type, severity |-> severity,
     primary_fault |-> primary_fault, cascades |-> cascades, message |-> message,
     details_message |-> details_message, rule_applied |-> rule_applied,
     cascade_count |-> Len(cascades)]

\* The body of the loop "for subsys_id, subsys_faults in by_subsystem.items()"
BuildAggregated(subsystems, faults, subsys_id, hash_order) ==
    LET subsys_faults == BySubsystem(faults, subsys_id)
        rules == ApplyCausalRules(faults)
        faulty_subsystems == Range(BySubsystemKeys(faults))
        subsystem_name == IF HasSubsystem(subsystems, subsys_id)
                          THEN GetSubsystem(subsystems, subsys_id).name
                          ELSE title(Str(subsys_id))
        own == subsys_faults[1].human_message
        upstream_faults == get_faulty_upstreams(subsystems, faulty_subsystems,
                                                subsys_id, hash_order)
        upstream_names == Join([k \in 1..Len(upstream_faults) |->
                                   NameOf(subsystems, upstream_faults[k])])
        typed ==
            IF subsys_id \in rules.root_subsystems
            THEN [fault_type |-> ROOT_CAUSE, severity |-> Severity.FAULT,
                  message |-> own, details_message |-> <<>>]
            ELSE IF subsys_id \in rules.cascade_subsystems
            THEN [fault_type |-> CASCADE, severity |-> Severity.CASCADE,
                  message |-> rules.applied_rules[subsys_id].message,
                  details_message |-> own]
            ELSE IF upstream_faults # <<>>
            THEN [fault_type |-> CASCADE, severity |-> Severity.CASCADE,
                  message |-> Str("Likely downstream effect. Investigate upstream first: ")
                                \o upstream_names,
                  details_message |-> own]
            ELSE IF has_faulty_downstream(subsystems, faulty_subsystems,
                                          subsys_id, NewWalk).result
            THEN [fault_type |-> ROOT_CAUSE, severity |-> Severity.FAULT,
                  message |-> own, details_message |-> <<>>]
            ELSE [fault_type |-> INDEPENDENT, severity |-> Severity.FAULT,
                  message |-> own, details_message |-> <<>>]
    IN AggregatedFault(subsys_id, subsystem_name, typed.fault_type, typed.severity,
                       subsys_faults[1], Tail(subsys_faults), typed.message,
                       typed.details_message,
                       IF subsys_id \in rules.cascade_subsystems
                       THEN <<rules.applied_rules[subsys_id].name>> ELSE <<>>)

\* The tier with CASCADE before INDEPENDENT
SortTier_CascadeSecond(a) ==
    IF a.fault_type = ROOT_CAUSE THEN 0 ELSE IF a.fault_type = CASCADE THEN 1 ELSE 2

\* The tier of the sort key
SortTier(a) ==
    IF a.fault_type = ROOT_CAUSE THEN 0 ELSE IF a.fault_type = INDEPENDENT THEN 1 ELSE 2

\* key(a) <= key(b) for the sort key (tier, priority)
SortKeyLeq(subsystems, a, b) ==
    \/ SortTier(a) < SortTier(b)
    \/ /\ SortTier(a) = SortTier(b)
       /\ PriorityOf(subsystems, a.subsystem) <= PriorityOf(subsystems, b.subsystem)

\* aggregated.sort(key=...), a stable sort
RECURSIVE SortAggregated(_, _)
SortAggregated(subsystems, aggregated) ==
    IF aggregated = <<>> THEN <<>>
    ELSE LET sorted == SortAggregated(subsystems, Front(aggregated))
             a == Last(aggregated)
         IN SelectSeq(sorted, LAMBDA b : SortKeyLeq(subsystems, b, a))
              \o <<a>>
              \o SelectSeq(sorted, LAMBDA b : ~SortKeyLeq(subsystems, b, a))

CountFaultType(serialized, fault_type) ==
    Cardinality({i \in 1..Len(serialized) : serialized[i].fault_type = fault_type})

\* aggregate_faults; hash_orders[k] is the iteration order of the set that
\* get_faulty_upstreams builds in the call made for the k-th faulting subsystem
aggregate_faults(subsystems, pair_results, hash_orders) ==
    LET faults == AnnotatedFaults(subsystems, pair_results)
    IN IF faults = <<>>
       THEN [subsystem_faults |-> <<>>, total_faults |-> 0, root_causes |-> 0,
             cascades |-> 0, by_severity |-> <<>>]
       ELSE LET keys == BySubsystemKeys(faults)
                aggregated ==
                    [k \in 1..Len(keys) |->
                        BuildAggregated(subsystems, faults, keys[k], hash_orders[k])]
                serialized == SortAggregated(subsystems, aggregated)
            IN [subsystem_faults |-> serialized,
                total_faults |-> Len(faults),
                root_causes |-> CountFaultType(serialized, ROOT_CAUSE),
                cascades |-> CountFaultType(serialized, CASCADE),
                independent |-> CountFaultType(serialized, INDEPENDENT),
                by_severity |->
                    [sev \in {serialized[i].severity : i \in 1..Len(serialized)} |->
                        Cardinality({i \in 1..Len(serialized) :
                                        serialized[i].severity = sev})]]

\* The visits and the calls of the two walks made for each faulting
\* subsystem: none for a subsystem classified by a rule, and no downstream
\* walk when a faulting upstream was found
TopologyWalks(subsystems, pair_results) ==
    LET faults == AnnotatedFaults(subsystems, pair_results)
        rules == ApplyCausalRules(faults)
        faulty_subsystems == Range(BySubsystemKeys(faults))
    IN [s \in faulty_subsystems |->
          IF s \in rules.root_subsystems \cup rules.cascade_subsystems
          THEN [upstream |-> NewWalk, downstream |-> NewWalk]
          ELSE LET up == _collect_faulty_upstreams(subsystems, faulty_subsystems,
                                                   s, NewWalk)
               IN [upstream |-> up,
                   downstream |->
                      IF up.found # {} THEN NewWalk
                      ELSE has_faulty_downstream(subsystems, faulty_subsystems,
                                                 s, NewWalk)]]

\* The registry with the upstream list of one subsystem replaced
WithUpstream(subsystems, id, upstream) ==
    [i \in 1..Len(subsystems) |->
        IF subsystems[i].id = id
        THEN [subsystems[i] EXCEPT !.upstream = upstream]
        ELSE subsystems[i]]

\* test_cycle_safety: valve upstream of sat and sat upstream of valve
CycleRegistry == WithUpstream(SUBSYSTEMS, "valve", <<"sat">>)

\* The same kind of cycle between valve and chw, the roots of two rules
ChwCycleRegistry ==
    WithUpstream(WithUpstream(SUBSYSTEMS, "valve", <<"chw">>), "chw", <<"valve">>)

\* test_dedup_upstream_two_paths: leaf -> mid_a -> top and leaf -> mid_b -> top
DiamondRegistry ==
    SUBSYSTEMS \o
    << Subsystem("top", "Top", 1, <<"top">>, <<>>, <<>>),
       Subsystem("mid_a", "MidA", 2, <<"mid_a">>, <<>>, <<"top">>),
       Subsystem("mid_b", "MidB", 2, <<"mid_b">>, <<>>, <<"top">>),
       Subsystem("leaf", "Leaf", 3, <<"leaf">>, <<>>, <<"mid_a", "mid_b">>) >>

\* Every upstream relation over three subsystems that no causal rule names,
\* self-loops and cycles included
RelationIds == <<"imu", "baro", "gps">>

RelationRegistries ==
    {WithUpstream(WithUpstream(WithUpstream(SUBSYSTEMS,
        "imu", SelectSeq(RelationIds, LAMBDA u : u \in up["imu"])),
        "baro", SelectSeq(RelationIds, LAMBDA u : u \in up["baro"])),
        "gps", SelectSeq(RelationIds, LAMBDA u : u \in up["gps"])) :
     up \in [Range(RelationIds) -> SUBSET Range(RelationIds)]}

\* Pair results: one fault per subsystem, a fault of no subsystem, a second
\* fault of sat without values and a pair that is not a fault
BuiltinPairs ==
    << PairResult("valve", "VLV-01", "FAULT", Float(95), Float(5), Str("%"), "cmd_pos"),
       PairResult("sat", "SA-TEMP", "FAULT", Float(72), Float(80), <<"U+00B0", "F">>, ""),
       PairResult("vav", "VAV-01", "FAULT", Float(72), Float(80), <<"U+00B0", "F">>, ""),
       PairResult("", "chw-01", "FAULT", Float(44), Float(50), <<"U+00B0", "F">>, ""),
       PairResult("zone", "RM-TEMP", "FAULT", Float(72), Float(68), <<"U+00B0", "F">>, ""),
       PairResult("imu", "IMU-ACC", "FAULT", Float(72), Float(80), <<"U+00B0", "F">>, ""),
       PairResult("baro", "BARO-01", "FAULT", Float(72), Float(80), <<"U+00B0", "F">>, ""),
       PairResult("gps", "GPS-01", "FAULT", Float(72), Float(80), <<"U+00B0", "F">>, ""),
       PairResult("misc", "X-01", "FAULT", Float(1), Float(3), <<>>, ""),
       PairResult("SAT", "SUPPLY-2", "FAULT", None, Float(80), <<"U+00B0", "F">>, ""),
       PairResult("zone", "ROOM", "OK", Float(72), Float(72), <<"U+00B0", "F">>, "") >>

CyclePairs == SubSeq(BuiltinPairs, 1, 5)

RelationPairs == SubSeq(BuiltinPairs, 6, 8)

\* The four fault dicts of test_dedup_upstream_two_paths, each _fault(group,
\* name) with the defaults val_a 72.0, val_b 80.0, the unit of degrees F and
\* an empty pair_type
DiamondPairs ==
    << PairResult("top", "TOP-01", "FAULT", Float(72), Float(80), <<"U+00B0", "F">>, ""),
       PairResult("mid_a", "MIDA-01", "FAULT", Float(72), Float(80), <<"U+00B0", "F">>, ""),
       PairResult("mid_b", "MIDB-01", "FAULT", Float(72), Float(80), <<"U+00B0", "F">>, ""),
       PairResult("leaf", "LEAF-01", "FAULT", Float(72), Float(80), <<"U+00B0", "F">>, "") >>

\* Pair results named outside ASCII: "pre" and the sharp s, whose upper case
\* is PRESS; the micro sign and "-gps"; "a" and the e with acute accent in
\* the group of that name in upper case
UnicodePairs ==
    << [PairResult("", "", "FAULT", Float(72), Float(80), <<"U+00B0", "F">>, "")
           EXCEPT !.name = Str("pre") \o <<"U+00DF">>],
       [PairResult("", "", "FAULT", Float(72), Float(80), <<"U+00B0", "F">>, "")
           EXCEPT !.name = <<"U+00B5">> \o Str("-gps")],
       [PairResult("", "", "FAULT", Float(1), Float(3), <<>>, "")
           EXCEPT !.name = <<"a", "U+00E9">>, !.group = <<"A", "U+00C9">>] >>

\* The elements of pool at the indices in S, in the pool's order
RECURSIVE Pick(_, _)
Pick(pool, S) ==
    IF pool = <<>> THEN <<>>
    ELSE Pick(Front(pool), S) \o (IF Len(pool) \in S THEN <<Last(pool)>> ELSE <<>>)

Reverse(s) == [i \in 1..Len(s) |-> s[Len(s) + 1 - i]]

\* list(found): the elements of a set of str in every order, the order of
\* iteration depending on the hash seed and on the insertions
RECURSIVE IterationOrders(_)
IterationOrders(found) ==
    IF found = {} THEN {<<>>}
    ELSE UNION {{<<u>> \o rest : rest \in IterationOrders(found \ {u})} : u \in found}

\* The set found of the call get_faulty_upstreams(subsys_id)
FoundUpstreams(subsystems, faults, subsys_id) ==
    _collect_faulty_upstreams(subsystems, Range(BySubsystemKeys(faults)),
                              subsys_id, NewWalk).found

\* The set found of the call made for subsys_id, empty when a causal rule
\* classifies the subsystem and the call is not made
SetBuiltFor(subsystems, faults, subsys_id) ==
    IF subsys_id \in ApplyCausalRules(faults).root_subsystems
                      \cup ApplyCausalRules(faults).cascade_subsystems
    THEN {}
    ELSE FoundUpstreams(subsystems, faults, subsys_id)

\* One iteration order for each of the sets built for keys[k..]
RECURSIVE OrdersFrom(_, _, _, _)
OrdersFrom(subsystems, faults, keys, k) ==
    IF k > Len(keys) THEN {<<>>}
    ELSE UNION {{<<first>> \o rest :
                    rest \in OrdersFrom(subsystems, faults, keys, k + 1)} :
                first \in IterationOrders(SetBuiltFor(subsystems, faults, keys[k]))}

\* The iteration orders one call of aggregate_faults can meet: each call of
\* get_faulty_upstreams builds a set of its own
HashOrders(subsystems, pair_results) ==
    LET faults == AnnotatedFaults(subsystems, pair_results)
    IN OrdersFrom(subsystems, faults, BySubsystemKeys(faults), 1)

\* The sublists of pool, and with reversed their reversals too
PairLists(pool, reversed) ==
    UNION {{Pick(pool, S)} \cup (IF reversed THEN {Reverse(Pick(pool, S))} ELSE {}) :
           S \in SUBSET (1..Len(pool))}

AggregatorInputsOf(registries, pool, reversed) ==
    UNION {
        [subsystems : {subsystems},
         pair_results : PairLists(pool, reversed)] :
        subsystems \in registries}

AggregatorInputs ==
    AggregatorInputsOf({SUBSYSTEMS}, BuiltinPairs, TRUE)
      \cup AggregatorInputsOf({CycleRegistry, ChwCycleRegistry}, CyclePairs, TRUE)
      \cup AggregatorInputsOf({DiamondRegistry}, DiamondPairs, TRUE)
      \cup AggregatorInputsOf(RelationRegistries, RelationPairs, FALSE)
      \cup AggregatorInputsOf({SUBSYSTEMS}, UnicodePairs, FALSE)

AggregatorInit == fz_in \in AggregatorInputs /\ fz_out = <<>>

\* The call aggregate_faults(pair_results) with the registry drawn, under
\* any iteration order of its sets; walks records the visits of its two
\* walks, and the caller's list keeps the annotations
AggregateFaults ==
    /\ fz_in # <<>> /\ fz_out = <<>>
    /\ fz_in' = [fz_in EXCEPT !.pair_results =
                    AnnotatedInPlace(fz_in.subsystems, fz_in.pair_results)]
    /\ \E walks \in {TopologyWalks(fz_in.subsystems, fz_in.pair_results)} :
          \E hash_orders \in HashOrders(fz_in.subsystems, fz_in.pair_results) :
             fz_out' =
                <<[result |-> aggregate_faults(fz_in.subsystems, fz_in.pair_results,
                                               hash_orders),
                   walks |-> walks]>>

(***************************************************************************)
(* Specifications                                                          *)
(***************************************************************************)
\* The alert engine for one building, every fault type, every timestamp
AlertUpdate ==
    AlertUpdateIn({11}, FaultLists, NowInputs) /\ UNCHANGED <<fuseVars, winVars>>

\* The building's deletion
AlertDelete == DeleteBuilding(11) /\ UNCHANGED <<fuseVars, winVars>>

Init == AlertInit /\ FuseIdle /\ WinIdle

Next == AlertUpdate \/ AlertDelete

Spec == Init /\ [][Next]_vars

\* The alert engine for several buildings sharing the two tables
RootFaultLists == SeqsUpTo({f \in Faults : f.fault_type = ROOT_CAUSE}, 1)

BuildingsUpdate ==
    AlertUpdateIn(BuildingIds, RootFaultLists, Times) /\ UNCHANGED <<fuseVars, winVars>>

BuildingsDelete ==
    \E b \in BuildingIds : DeleteBuilding(b) /\ UNCHANGED <<fuseVars, winVars>>

NextBuildings == BuildingsUpdate \/ BuildingsDelete

SpecBuildings == Init /\ [][NextBuildings]_vars

\* The alert engine for one building with one fault, present or absent, at
\* parseable timestamps in any order, with an offset or without
CooldownTimes ==
    {0, COOLDOWN_SECONDS \div 2, COOLDOWN_SECONDS}
        \cup {Naive(0), Naive(COOLDOWN_SECONDS \div 2)}

CooldownUpdate ==
    /\ \E fs \in RootFaultLists, now \in CooldownTimes : UpdateWithHistory(11, fs, now)
    /\ UNCHANGED <<fuseVars, winVars>>

NextCooldown == CooldownUpdate \/ AlertDelete

SpecCooldown == Init /\ [][NextCooldown]_vars

\* The same cycles at non-decreasing timestamps. The timestamps are ISO
\* strings of one day: one is not earlier than another when its second is
\* later, or the same and it is not the shorter string, the one without an
\* offset. After delete_building no event of the building is left and the
\* clock may start again.
NotEarlier(now, previous) ==
    \/ previous = EmptyStr
    \/ parse_iso(previous).t < parse_iso(now).t
    \/ /\ parse_iso(previous).t = parse_iso(now).t
       /\ parse_iso(previous).aware => parse_iso(now).aware

OrderedUpdate ==
    /\ \E fs \in RootFaultLists, now \in CooldownTimes :
          NotEarlier(now, call.now) /\ UpdateWithHistory(11, fs, now)
    /\ UNCHANGED <<fuseVars, winVars>>

NextOrdered == OrderedUpdate \/ AlertDelete

SpecOrdered == Init /\ [][NextOrdered]_vars

\* One fuse_group call on arguments drawn from FuseInputs
InitFuse == AlertInit /\ FuseInit /\ WinIdle

NextFuse == FuseGroup /\ UNCHANGED <<alertVars, winVars>>

SpecFuse == InitFuse /\ [][NextFuse]_vars

\* fuse_group called on every order of a reading list drawn from FuseInputs
NextPermuted == FusePermuted /\ UNCHANGED <<alertVars, winVars>>

SpecPermuted == InitFuse /\ [][NextPermuted]_vars

\* The operations of the algebra on three elements drawn from AlgebraValues
InitAlgebra == AlertInit /\ AlgebraInit /\ WinIdle

NextAlgebra == AlgebraOps /\ UNCHANGED <<alertVars, winVars>>

SpecAlgebra == InitAlgebra /\ [][NextAlgebra]_vars

\* The typed aggregates of a list drawn from the reading values
InitAggregates == AlertInit /\ AggregateInit /\ WinIdle

NextAggregates == Aggregates /\ UNCHANGED <<alertVars, winVars>>

SpecAggregates == InitAggregates /\ [][NextAggregates]_vars

\* One temporal_fuse call on arguments drawn from TemporalInputs
InitTemporal == AlertInit /\ TemporalInit /\ WinIdle

NextTemporal == TemporalFuse /\ UNCHANGED <<alertVars, winVars>>

SpecTemporal == InitTemporal /\ [][NextTemporal]_vars

\* One decide_group call on a group and a reading mapping drawn
InitGroup == AlertInit /\ GroupInit /\ WinIdle

NextGroup == DecideGroup /\ UNCHANGED <<alertVars, winVars>>

SpecGroup == InitGroup /\ [][NextGroup]_vars

\* One classify_raw call on arguments drawn from ClassifyInputs
InitClassify == AlertInit /\ ClassifyInit /\ WinIdle

NextClassify == ClassifyRaw /\ UNCHANGED <<alertVars, winVars>>

SpecClassify == InitClassify /\ [][NextClassify]_vars

\* A WindowedDecider with parameters drawn from WindowParams, updated with
\* the readings of one group
InitWindow == AlertInit /\ FuseIdle /\ WinInit

NextWindow == (WindowUpdate \/ WindowReset) /\ UNCHANGED <<alertVars, fuseVars>>

SpecWindow == InitWindow /\ [][NextWindow]_vars

\* The same with parameters drawn from AnyWindowParams
InitWindowAny == AlertInit /\ FuseIdle /\ WinInitAny

SpecWindowAny == InitWindowAny /\ [][NextWindow]_vars

\* One aggregate_faults call on a registry and pair results drawn from
\* AggregatorInputs
InitAggregator == AlertInit /\ AggregatorInit /\ WinIdle

NextAggregator == AggregateFaults /\ UNCHANGED <<alertVars, winVars>>

SpecAggregator == InitAggregator /\ [][NextAggregator]_vars

\* Jobs of one building run by the processes of Workers, each job with one
\* root-cause fault or none, and the building's deletion; the jobs read the
\* same second off the clock
WorkerTimes == {0}

WorkerLoad ==
    \E w \in Workers, fs \in RootFaultLists, now \in WorkerTimes :
        RunAnalysisLoad(w, 11, fs, now) /\ UNCHANGED <<fuseVars, winVars>>

WorkerCommit ==
    \E w \in Workers : RunAnalysisCommit(w) /\ UNCHANGED <<fuseVars, winVars>>

NextWorker == WorkerLoad \/ WorkerCommit \/ AlertDelete

SpecWorker == Init /\ [][NextWorker]_vars

\* The same jobs run by one process only
NextOneWorker ==
    \/ \E fs \in RootFaultLists, now \in Times :
          RunAnalysisLoad(1, 11, fs, now) /\ UNCHANGED <<fuseVars, winVars>>
    \/ RunAnalysisCommit(1) /\ UNCHANGED <<fuseVars, winVars>>
    \/ AlertDelete

SpecOneWorker == Init /\ [][NextOneWorker]_vars

(***************************************************************************)
(* Properties of the alert state machine                                   *)
(***************************************************************************)
AllKeys == {_build_fault_key(b, f) : b \in BuildingIds, f \in Faults}

KeysOf(building_id) == {_build_fault_key(building_id, f) : f \in Faults}

EventCount(events, key) ==
    Cardinality({i \in 1..Len(events) : events[i].fault_key = key})

\* The row of a key in a table; an untracked key reads as a row never updated
RowOf(table, key) ==
    IF Tracked(table, key) THEN StateOf(table, key) ELSE NewAlertState(key, 0)

\* In the step at hand: update() returned normally
Called == call'.outcome = "ok"

\* In the step at hand: the key belongs to the building updated
InCycle(key) == key \in KeysOf(call'.building_id)

\* In the step at hand: the key is in `present`
PresentNow(key) == key \in call'.keys[ROOT_CAUSE]

\* In the step at hand: the AlertEvents added for the key
Emitted(key) == EventCount(alert_events', key) - EventCount(alert_events, key)

\* In the step at hand: the alerts returned for the key
Returned(key) == EventCount(fired', key)

\* C1: a key with no AlertEvent so far gets none in a cycle that leaves its
\* run of consecutive present cycles below CONFIRM_AFTER and exactly one in
\* the cycle that brings the run to CONFIRM_AFTER; the run is counted by
\* present_streak, which grows by one in a present cycle and is 0 after an
\* absent one.
C1_ConfirmAfterThreshold ==
    [][Called =>
        \A k \in AllKeys :
            (InCycle(k) /\ EventCount(alert_events, k) = 0) =>
                LET before == RowOf(alert_state, k)
                    after == RowOf(alert_state', k)
                IN /\ PresentNow(k) =>
                        /\ after.present_streak = before.present_streak + 1
                        /\ after.present_streak < CONFIRM_AFTER =>
                              Emitted(k) = 0 /\ Returned(k) = 0
                        /\ after.present_streak = CONFIRM_AFTER =>
                              Emitted(k) = 1 /\ Returned(k) = 1
                   /\ ~PresentNow(k) =>
                        /\ after.present_streak = 0
                        /\ Emitted(k) = 0 /\ Returned(k) = 0]_vars

\* C1 witness: the third consecutive present cycle of a key has fired its
\* first alert
C1_Witness ==
    \E s \in alert_state :
        /\ s.present_streak = CONFIRM_AFTER
        /\ s.fault_key \in call.keys[ROOT_CAUSE]
        /\ EventCount(alert_events, s.fault_key) = 1
        /\ EventCount(fired, s.fault_key) = 1

\* C2: a cycle adds at most one AlertEvent for a key and none for a key
\* that is confirmed when the cycle starts; confirmed is only reset by a
\* cycle that brings absent_streak to CLEAR_AFTER.
C2_OncePerIncident ==
    [][Called =>
        \A k \in AllKeys :
            /\ Emitted(k) <= 1
            /\ RowOf(alert_state, k).confirmed =>
                  /\ Emitted(k) = 0 /\ Returned(k) = 0
                  /\ \/ RowOf(alert_state', k).confirmed
                     \/ /\ ~PresentNow(k)
                        /\ RowOf(alert_state', k).absent_streak >= CLEAR_AFTER]_vars

\* C2 witness: a confirmed fault went away for fewer than CLEAR_AFTER
\* cycles and is back, still confirmed, with the one AlertEvent of its
\* incident and nothing fired
C2_Witness ==
    \E s \in alert_state :
        /\ s.confirmed
        /\ s.present_streak = 1
        /\ s.fault_key \in call.keys[ROOT_CAUSE]
        /\ EventCount(alert_events, s.fault_key) = 1
        /\ fired = <<>>

\* The precondition of C3 and C4: the key alerted before, is cleared, and
\* this cycle brings its present run to CONFIRM_AFTER with both timestamps
\* readable
Reconfirming(k) ==
    /\ InCycle(k) /\ PresentNow(k)
    /\ ~RowOf(alert_state, k).confirmed
    /\ RowOf(alert_state, k).last_alerted_at \in Times
    /\ call'.now \in Times
    /\ RowOf(alert_state, k).present_streak + 1 >= CONFIRM_AFTER

\* C3: reconfirmation less than COOLDOWN_SECONDS after last_alerted_at adds
\* no AlertEvent, sets confirmed and active and leaves last_alerted_at.
C3_CooldownSuppresses ==
    [][Called =>
        \A k \in AllKeys :
            (/\ Reconfirming(k)
             /\ call'.now - RowOf(alert_state, k).last_alerted_at < COOLDOWN_SECONDS)
            => /\ Emitted(k) = 0 /\ Returned(k) = 0
               /\ RowOf(alert_state', k).confirmed
               /\ RowOf(alert_state', k).active
               /\ RowOf(alert_state', k).last_alerted_at
                      = RowOf(alert_state, k).last_alerted_at]_vars

\* C3 witness: a key reached CONFIRM_AFTER in this cycle inside the window
\* of its earlier alert, and nothing was fired
C3_Witness ==
    \E s \in alert_state :
        /\ s.present_streak = CONFIRM_AFTER /\ s.confirmed /\ s.active
        /\ s.fault_key \in call.keys[ROOT_CAUSE]
        /\ s.last_alerted_at \in Times /\ call.now \in Times
        /\ call.now - s.last_alerted_at < COOLDOWN_SECONDS
        /\ EventCount(alert_events, s.fault_key) = 1
        /\ fired = <<>>

\* C4: reconfirmation at least COOLDOWN_SECONDS after last_alerted_at adds
\* exactly one AlertEvent, stamped with this cycle's timestamp, and sets
\* last_alerted_at to it.
C4_RefireAfterCooldown ==
    [][Called =>
        \A k \in AllKeys :
            (/\ Reconfirming(k)
             /\ call'.now - RowOf(alert_state, k).last_alerted_at >= COOLDOWN_SECONDS)
            => /\ Emitted(k) = 1 /\ Returned(k) = 1
               /\ Last(alert_events').fault_key = k
               /\ Last(alert_events').created_at = call'.now
               /\ RowOf(alert_state', k).confirmed
               /\ RowOf(alert_state', k).last_alerted_at = call'.now]_vars

\* C4 witness: the second alert of a key, fired in this cycle,
\* COOLDOWN_SECONDS or more after the first
C4_Witness ==
    \E s \in alert_state :
        /\ s.present_streak = CONFIRM_AFTER /\ s.confirmed
        /\ s.last_alerted_at = call.now
        /\ EventCount(fired, s.fault_key) = 1
        /\ Len(alert_events) = 2
        /\ alert_events[1].fault_key = s.fault_key
        /\ alert_events[2].fault_key = s.fault_key
        /\ alert_events[1].created_at \in Times
        /\ alert_events[2].created_at \in Times
        /\ alert_events[2].created_at - alert_events[1].created_at >= COOLDOWN_SECONDS

\* C5: a tracked key of the building that is absent in a cycle has
\* absent_streak raised by one and present_streak set to 0; active and
\* confirmed are kept while absent_streak is below CLEAR_AFTER and are both
\* false once it has reached CLEAR_AFTER.
C5_AbsentClears ==
    [][Called =>
        \A s \in alert_state :
            (s.building_id = call'.building_id /\ ~PresentNow(s.fault_key)) =>
                LET after == RowOf(alert_state', s.fault_key)
                IN /\ Tracked(alert_state', s.fault_key)
                   /\ after.absent_streak = s.absent_streak + 1
                   /\ after.present_streak = 0
                   /\ after.absent_streak < CLEAR_AFTER =>
                         after.active = s.active /\ after.confirmed = s.confirmed
                   /\ after.absent_streak >= CLEAR_AFTER =>
                         ~after.active /\ ~after.confirmed]_vars

\* C5 witness: a key that had alerted has just been absent for the
\* CLEAR_AFTER-th cycle in a row and is cleared
C5_Witness ==
    \E s \in alert_state :
        /\ s.absent_streak = CLEAR_AFTER
        /\ s.fault_key \notin call.keys[ROOT_CAUSE]
        /\ s.building_id = call.building_id
        /\ ~s.active /\ ~s.confirmed
        /\ EventCount(alert_events, s.fault_key) = 1

\* C6: a key passed only on CASCADE or INDEPENDENT faults gets no
\* AlertState if it has none, no present_streak and no AlertEvent.
C6_OnlyRootCauseTracked ==
    [][Called =>
        \A k \in (call'.keys[CASCADE] \cup call'.keys[INDEPENDENT])
                     \ call'.keys[ROOT_CAUSE] :
            /\ Tracked(alert_state', k) => Tracked(alert_state, k)
            /\ RowOf(alert_state', k).present_streak = 0
            /\ Emitted(k) = 0 /\ Returned(k) = 0]_vars

\* C6 witness: a cycle with a CASCADE and an INDEPENDENT fault and no
\* ROOT_CAUSE fault has run and nothing is tracked
C6_Witness ==
    /\ call.outcome = "ok"
    /\ call.keys[CASCADE] # {} /\ call.keys[INDEPENDENT] # {}
    /\ call.keys[ROOT_CAUSE] = {}
    /\ alert_state = {} /\ alert_events = <<>> /\ fired = <<>>

\* Every key of the two tables has the prefix of its row's building, and
\* no key is shared by rows of two buildings
KeysNamespaced ==
    /\ \A s \in alert_state : StartsWith(s.fault_key, KeyPrefix(s.building_id))
    /\ \A i \in 1..Len(alert_events) :
          StartsWith(alert_events[i].fault_key, KeyPrefix(alert_events[i].building_id))
    /\ \A s, t \in alert_state :
          s.building_id # t.building_id => s.fault_key # t.fault_key
    /\ \A a, b \in BuildingIds : \A f, g \in Faults :
          a # b => _build_fault_key(a, f) # _build_fault_key(b, g)

OtherRows(table, building_id) == {s \in table : s.building_id # building_id}

OtherEvents(events, building_id) ==
    SelectSeq(events, LAMBDA e : e.building_id # building_id)

\* C7: every fault_key starts with its building id and a colon, keys of
\* different buildings differ, and update() for one building changes no
\* AlertState and no AlertEvent of another (nor does its deletion).
C7_BuildingsIsolated ==
    [][/\ call'.outcome # "ValueError"
       /\ KeysNamespaced'
       /\ OtherRows(alert_state', call'.building_id)
              = OtherRows(alert_state, call'.building_id)
       /\ OtherEvents(alert_events', call'.building_id)
              = OtherEvents(alert_events, call'.building_id)
       /\ \A s \in alert_state' \ alert_state :
              s.building_id = call'.building_id]_vars

\* C7 witness: building 1 is confirmed and building 11, updated last, is
\* one cycle in, each under its own key
C7_Witness ==
    \E s, t \in alert_state :
        /\ s.building_id = 1 /\ s.confirmed /\ s.present_streak = CONFIRM_AFTER
        /\ t.building_id = 11 /\ ~t.confirmed /\ t.present_streak = 1
        /\ call.building_id = 11
        /\ SubSeq(t.fault_key, 3, Len(t.fault_key))
               = SubSeq(s.fault_key, 2, Len(s.fault_key))

(***************************************************************************)
(* Properties of the windowed decider                                      *)
(***************************************************************************)
NonOkModes == {"FAILOVER", "INCONSISTENT", "DEGRADED", "REDUCED"}

Threshold(params, mode) ==
    CASE mode = "FAILOVER" -> params.failover_k
      [] mode = "INCONSISTENT" -> params.inconsistent_k
      [] mode = "DEGRADED" -> params.degraded_k
      [] mode = "REDUCED" -> params.reduced_k
      [] mode = "OK" -> params.ok_recover_k

\* The stable mode of the group in a decider state
StableOf(state) ==
    IF WinGroup.name \in DOMAIN state THEN state[WinGroup.name].stable_mode ELSE "OK"

HistoryOf(state) ==
    IF WinGroup.name \in DOMAIN state THEN state[WinGroup.name].history ELSE <<>>

\* The step is an update(): reset() leaves no returned value
UpdateStep == win_out' # <<>>

\* The last Threshold(mode) raw modes of the group are all `mode`
RawRunMet(raw, params, mode) ==
    _consecutive_suffix(raw, mode) >= Threshold(params, mode)

\* Every threshold is within the capacity of the history
WithinCapacity(params) ==
    \A mode \in NonOkModes \cup {"OK"} : Threshold(params, mode) <= params.max_history

\* C8: after an update the stable mode is M whenever the last k_M raw modes
\* of the group are all M, and an update changes the stable mode to M only
\* when the trailing run of M in the history is at least k_M.
C8_EscalationNeedsPersistence ==
    [][UpdateStep => \A mode \in NonOkModes :
          /\ RawRunMet(win_raw', win_params, mode) => StableOf(win_state') = mode
          /\ (StableOf(win_state') = mode /\ StableOf(win_state) # mode) =>
                _consecutive_suffix(HistoryOf(win_state'), mode)
                    >= Threshold(win_params, mode)]_vars

\* C8 for the parameters whose thresholds are within the capacity of the
\* history
C8_WithinCapacity ==
    [][(UpdateStep /\ WithinCapacity(win_params)) =>
        \A mode \in NonOkModes :
          /\ RawRunMet(win_raw', win_params, mode) => StableOf(win_state') = mode
          /\ (StableOf(win_state') = mode /\ StableOf(win_state) # mode) =>
                _consecutive_suffix(HistoryOf(win_state'), mode)
                    >= Threshold(win_params, mode)]_vars

\* No raw run meets the threshold of a non-OK mode
NoEscalation(raw, params) == \A mode \in NonOkModes : ~RawRunMet(raw, params, mode)

Recovery ==
    /\ StableOf(win_state) \in NonOkModes =>
          /\ StableOf(win_state') = "OK" <=> RawRunMet(win_raw', win_params, "OK")
          /\ (~RawRunMet(win_raw', win_params, "OK")
              /\ NoEscalation(win_raw', win_params)) =>
                 StableOf(win_state') = StableOf(win_state)
    /\ (StableOf(win_state) = "OK" /\ NoEscalation(win_raw', win_params)) =>
          StableOf(win_state') = "OK"

\* C9: a non-OK stable mode changes to OK at an update exactly when the
\* trailing run of raw OK modes, the new one included, is at least
\* ok_recover_k; with a shorter run and no escalation threshold met it is
\* left as it is; a stable OK stays OK when no escalation threshold is met.
C9_RecoveryNeedsOkStreak == [][UpdateStep => Recovery]_vars

\* C9 for the parameters whose thresholds are within the capacity of the
\* history
C9_WithinCapacity == [][(UpdateStep /\ WithinCapacity(win_params)) => Recovery]_vars

(***************************************************************************)
(* Properties of fuse_group                                                *)
(***************************************************************************)
Modes == {"OK", "REDUCED", "DEGRADED", "INCONSISTENT", "FAILOVER"}

IsElement(x) == x.t \in {"AbsZero", "MeasZero", "ResToken", "Real"}

\* The readings of a call that are not AbsZero
Eligible(values) == {i \in 1..Len(values) : values[i] # O_BM}

\* C10: when fewer than required_eligible readings are eligible the result
\* is FAILOVER with no pairwise results, and it is a result, not an
\* exception, also for an empty reading list.
C10_InsufficientEligibleFailover ==
    fz_out # <<>> =>
        /\ fz_out[1].group_mode \in Modes
        /\ IsElement(fz_out[1].fused_value)
        /\ IsElement(fz_out[1].fused_sum)
        /\ Cardinality(Eligible(fz_in.readings)) < fz_in.required_eligible =>
              /\ fz_out[1].group_mode = "FAILOVER"
              /\ fz_out[1].pairwise = <<>>
              /\ fz_out[1].eligible_count = Cardinality(Eligible(fz_in.readings))

\* C10 witness: fuse_group has returned FAILOVER for an empty reading list
\* and a positive required_eligible
C10_Witness ==
    /\ fz_out # <<>>
    /\ fz_in.readings = <<>>
    /\ fz_in.required_eligible > 0
    /\ fz_out[1].group_mode = "FAILOVER"
    /\ fz_out[1].pairwise = <<>>
    /\ fz_out[1].total_count = 0

\* The calls of a reading list of n sensors: sensor i is required when it is
\* not in the optional set
RequiredSensor(i) == SensorName(i) \notin fz_in.optional_sensors

SensorPairs == {p \in (1..Len(fz_in.readings)) \X (1..Len(fz_in.readings)) : p[1] < p[2]}

RequiredPairs == {p \in SensorPairs : RequiredSensor(p[1]) /\ RequiredSensor(p[2])}

SemiRequiredPairs == {p \in SensorPairs : RequiredSensor(p[1]) \/ RequiredSensor(p[2])}

\* The label of the pair p of the readings drawn
LabelOf(p) ==
    pairwise_consistency(TypedReading(SensorName(p[1]), fz_in.readings[p[1]]),
                         TypedReading(SensorName(p[2]), fz_in.readings[p[2]]),
                         fz_in.agree_eps).agreement

Disagreeing(pairs) == Cardinality({p \in pairs : LabelOf(p) = "DISAGREE"})

SomeRequired(kind) ==
    \E i \in 1..Len(fz_in.readings) : RequiredSensor(i) /\ fz_in.readings[i] = kind

\* The first match of the priority list (a)..(h)
PriorityMode ==
    IF fz_out[1].fused_value = O_BM THEN "FAILOVER"
    ELSE IF Disagreeing(RequiredPairs) > fz_in.max_disagree THEN "INCONSISTENT"
    ELSE IF fz_out[1].fused_value = O_M THEN "DEGRADED"
    ELSE IF SomeRequired(O_M) THEN "DEGRADED"
    ELSE IF \E p \in RequiredPairs : LabelOf(p) \in {"INDETERMINATE", "RESOLVED"}
    THEN "DEGRADED"
    ELSE IF SomeRequired(O_BM) THEN "REDUCED"
    ELSE IF Disagreeing(SemiRequiredPairs) > fz_in.max_disagree THEN "INCONSISTENT"
    ELSE "OK"

EnoughEligible ==
    /\ fz_out # <<>>
    /\ Cardinality(Eligible(fz_in.readings)) >= fz_in.required_eligible

\* C11: with eligible_count >= required_eligible the mode of fuse_group is the
\* first match of (a) fused AbsZero -> FAILOVER, (b) required-only DISAGREE
\* pairs above max_disagree -> INCONSISTENT, (c) fused MeasZero -> DEGRADED,
\* (d) a required sensor MeasZero -> DEGRADED, (e) a required-only pair
\* INDETERMINATE or RESOLVED -> DEGRADED, (f) a required sensor AbsZero ->
\* REDUCED, (g) semi-required DISAGREE pairs above max_disagree ->
\* INCONSISTENT, (h) OK.
C11_ModePriority == EnoughEligible => fz_out[1].group_mode = PriorityMode

\* C11 witness: a required sensor offline together with a required-vs-optional
\* disagreement above max_disagree, and nothing earlier in the list: REDUCED
C11_Witness ==
    /\ EnoughEligible
    /\ fz_out[1].fused_value.t = "Real"
    /\ SomeRequired(O_BM)
    /\ Disagreeing(RequiredPairs) = 0
    /\ Disagreeing(SemiRequiredPairs) > fz_in.max_disagree
    /\ fz_out[1].group_mode = "REDUCED"

\* Every optional sensor of the call is AbsZero or MeasZero, there is one, and
\* the required sensors, at least one, are Real and agree pairwise
OptionalDownRequiredAgree ==
    /\ fz_out # <<>>
    /\ \E i \in 1..Len(fz_in.readings) : ~RequiredSensor(i)
    /\ \E i \in 1..Len(fz_in.readings) : RequiredSensor(i)
    /\ \A i \in 1..Len(fz_in.readings) :
          IF RequiredSensor(i) THEN IsReal(fz_in.readings[i])
          ELSE fz_in.readings[i] \in {O_BM, O_M}
    /\ \A p \in RequiredPairs : LabelOf(p) = "AGREE"

\* C12: when every optional sensor is AbsZero or MeasZero and all required
\* sensors are Real and agree pairwise, fuse_group returns OK.
C12_OptionalNeverDegrades ==
    OptionalDownRequiredAgree => fz_out[1].group_mode = "OK"

\* C12 for the calls with eligible_count >= required_eligible
C12_WhenEnoughEligible ==
    (OptionalDownRequiredAgree /\ EnoughEligible) => fz_out[1].group_mode = "OK"

\* The sum of the Real values of a reading list, added to a float
RECURSIVE RealSum(_, _)
RealSum(values, sum) ==
    IF values = <<>> THEN sum
    ELSE RealSum(Tail(values),
                 IF IsReal(Head(values)) THEN FloatAdd(sum, Head(values).v) ELSE sum)

RealCount(values) == Cardinality({i \in 1..Len(values) : IsReal(values[i])})

\* Exactly one required sensor is AbsZero and all other sensors are Real and
\* agree pairwise
OneRequiredOffline ==
    /\ fz_out # <<>>
    /\ \E i \in 1..Len(fz_in.readings) :
          /\ RequiredSensor(i)
          /\ fz_in.readings[i] = O_BM
          /\ \A j \in 1..Len(fz_in.readings) : j # i => IsReal(fz_in.readings[j])
          /\ \A p \in SensorPairs : (p[1] # i /\ p[2] # i) => LabelOf(p) = "AGREE"

\* The mean of the Real values of the call
RealMean ==
    RealOf(FloatDiv(RealSum(fz_in.readings, FloatZero),
                    FloatOfInt(RealCount(fz_in.readings))))

\* C13 as stated: one required sensor AbsZero and the others, at least one,
\* Real and agreeing give REDUCED and the mean of the Real values, whatever
\* required_eligible is.
C13_AsStated ==
    (OneRequiredOffline /\ RealCount(fz_in.readings) >= 1) =>
        /\ fz_out[1].group_mode = "REDUCED"
        /\ fz_out[1].fused_value = RealMean

\* C13: one required sensor AbsZero and the others, at least one and at least
\* required_eligible of them, Real and agreeing: fuse_group returns REDUCED
\* and the sum of the Real values divided by the number of Real sensors.
C13_OneOfflineReduced ==
    (/\ OneRequiredOffline
     /\ RealCount(fz_in.readings) >= 1
     /\ RealCount(fz_in.readings) >= fz_in.required_eligible) =>
        /\ fz_out[1].group_mode = "REDUCED"
        /\ fz_out[1].fused_value = RealMean

\* C13 witness: two Real sensors that agree and a required one offline
C13_Witness ==
    /\ OneRequiredOffline
    /\ RealCount(fz_in.readings) = 2
    /\ fz_in.required_eligible = 2
    /\ fz_out[1].group_mode = "REDUCED"
    /\ fz_out[1].fused_value = RealMean
    /\ fz_out[1].eligible_count = 2 /\ fz_out[1].total_count = 3

(***************************************************************************)
(* Properties of pairwise_consistency                                      *)
(***************************************************************************)
Labels == {"AGREE", "DISAGREE", "INDETERMINATE", "INAPPLICABLE", "RESOLVED"}

SensorIndex(sensor_id) == CHOOSE i \in 1..MaxReadings : SensorName(i) = sensor_id

\* |ratio - 1| for a Real ratio
DistanceFromOne(ratio) == FloatAbs(FloatSub(ratio.v, FloatOfInt(1)))

\* The label the type of a ratio stands for
LabelOfRatio(ratio, eps) ==
    CASE ratio.t = "Real" ->
            IF FloatLess(DistanceFromOne(ratio), eps.v) THEN "AGREE" ELSE "DISAGREE"
      [] ratio.t = "MeasZero" -> "INDETERMINATE"
      [] ratio.t = "AbsZero" -> "INAPPLICABLE"
      [] ratio.t = "ResToken" -> "RESOLVED"

\* C14: every pairwise result of a call has ratio = div(a.s, b.s) and the
\* label of the ratio's type: Real with |ratio - 1| < eps AGREE, another Real
\* DISAGREE, MeasZero INDETERMINATE, AbsZero INAPPLICABLE, ResToken RESOLVED;
\* it is one of these five.
C14_PairwiseLabels ==
    fz_out # <<>> =>
        \A k \in 1..Len(fz_out[1].pairwise) :
            LET pr == fz_out[1].pairwise[k]
                a == fz_in.readings[SensorIndex(pr.sensor_a)]
                b == fz_in.readings[SensorIndex(pr.sensor_b)]
            IN /\ pr.ratio = div(a, b)
               /\ IsElement(pr.ratio)
               /\ pr.agreement \in Labels
               /\ pr.agreement = LabelOfRatio(pr.ratio, fz_in.agree_eps)

\* C14 witness: a call with eps = 1 that has a pair labelled DISAGREE for
\* |ratio - 1| = eps and a pair labelled RESOLVED
C14_Witness ==
    /\ fz_out # <<>>
    /\ fz_in.agree_eps = Real(1, 1)
    /\ \E k \in 1..Len(fz_out[1].pairwise) :
          /\ fz_out[1].pairwise[k].agreement = "DISAGREE"
          /\ DistanceFromOne(fz_out[1].pairwise[k].ratio) = fz_in.agree_eps.v
    /\ \E k \in 1..Len(fz_out[1].pairwise) : fz_out[1].pairwise[k].agreement = "RESOLVED"

\* 9 and 10 agree at eps = 0.1: the float 9 / 10 is less than 0.1 from 1
C14_RoundedAgree ==
    /\ fz_out # <<>>
    /\ fz_in.readings = <<Real(9, 1), Real(10, 1)>>
    /\ fz_in.agree_eps = Real(1, 10)
    /\ fz_in.required_eligible = 2
    /\ fz_out[1].pairwise[1].agreement = "AGREE"

(***************************************************************************)
(* Properties of classify_raw                                              *)
(***************************************************************************)
NoiseFloorOf(config) == IF config = <<>> THEN FloatZero ELSE config[1].noise_floor

MaxValidOf(config) == IF config = <<>> THEN FloatInf(1) ELSE config[1].max_valid

Missing(raw) == raw = None \/ raw = FloatNaN

\* A magnitude below the noise floor or above max_valid
Invalid(raw, config) ==
    /\ ~Missing(raw)
    /\ \/ FloatLess(FloatAbs(raw), NoiseFloorOf(config))
       \/ FloatLess(MaxValidOf(config), FloatAbs(raw))

\* C15: classify_raw returns a reading for every input: AbsZero for None and
\* NaN; otherwise MeasZero for a magnitude below the noise floor or above
\* max_valid; otherwise Real(raw).  AbsZero comes from None and NaN only.
C15_ClassifyTotal ==
    fz_out # <<>> =>
        /\ fz_out[1].sensor_id = fz_in.sensor_id
        /\ IsElement(fz_out[1].s)
        /\ Missing(fz_in.raw) => fz_out[1].s = O_BM
        /\ Invalid(fz_in.raw, fz_in.config) => fz_out[1].s = O_M
        /\ (~Missing(fz_in.raw) /\ ~Invalid(fz_in.raw, fz_in.config)) =>
              fz_out[1].s = RealOf(fz_in.raw)
        /\ fz_out[1].s = O_BM => Missing(fz_in.raw)

\* C15 witness: NaN has been classified AbsZero
C15_Witness ==
    /\ fz_out # <<>>
    /\ fz_in.raw = FloatNaN
    /\ fz_in.config # <<>>
    /\ fz_out[1].s = O_BM

(***************************************************************************)
(* Properties of the algebra                                               *)
(***************************************************************************)
\* C16: AbsZero is the identity of add and ResToken the identity of mul, on
\* both sides, for every element.
C16_Identities ==
    fz_out # <<>> =>
        /\ fz_out[1].add_x_bm = fz_in.x
        /\ fz_out[1].add_bm_x = fz_in.x
        /\ fz_out[1].mul_x_t = fz_in.x
        /\ fz_out[1].mul_t_x = fz_in.x

\* C16 witness: the identities have been computed for Real(0)
C16_Witness ==
    /\ fz_out # <<>>
    /\ fz_in.x = Real(0, 1)
    /\ fz_out[1].add_x_bm = Real(0, 1)
    /\ fz_out[1].mul_t_x = Real(0, 1)

\* C17: add and mul are commutative and associative on all elements, the
\* two sides being equal as elements are (==).
C17_CommutativeAssociative ==
    fz_out # <<>> =>
        /\ __eq__(fz_out[1].add_xy, fz_out[1].add_yx)
        /\ __eq__(fz_out[1].mul_xy, fz_out[1].mul_yx)
        /\ __eq__(fz_out[1].add_xy_z, fz_out[1].add_x_yz)
        /\ __eq__(fz_out[1].mul_xy_z, fz_out[1].mul_x_yz)

\* add and mul are commutative on all elements
C17_Commutative ==
    fz_out # <<>> =>
        /\ __eq__(fz_out[1].add_xy, fz_out[1].add_yx)
        /\ __eq__(fz_out[1].mul_xy, fz_out[1].mul_yx)

\* The elements of test_associativity, and add and mul associative on them
AssociativityElements == {O_BM, O_M, ONE_T, Real(0, 1), Real(2, 1), Real(-1, 1)}

C17_AssociativeAsTested ==
    (fz_out # <<>> /\ {fz_in.x, fz_in.y, fz_in.z} \subseteq AssociativityElements) =>
        /\ __eq__(fz_out[1].add_xy_z, fz_out[1].add_x_yz)
        /\ __eq__(fz_out[1].mul_xy_z, fz_out[1].mul_x_yz)

\* 0.1, 0.2 and -0.3, whose sum is rounded differently in its two
\* bracketings, which are equal all the same
C17_Witness ==
    /\ fz_out # <<>>
    /\ fz_in.x = Real(1, 10) /\ fz_in.y = Real(1, 5) /\ fz_in.z = Real(-3, 10)
    /\ fz_out[1].add_xy_z.v # fz_out[1].add_x_yz.v
    /\ ~FloatIsZero(fz_out[1].add_xy_z.v)
    /\ __eq__(fz_out[1].add_xy_z, fz_out[1].add_x_yz)

\* (0.1 + 1e8) + -1e8 is 0.09999999403953552, which is 13107 * 2^15 + 102
\* times 2^-25, and 0.1 + (1e8 + -1e8) is 0.1: not equal
C17_LostDigits ==
    /\ fz_out # <<>>
    /\ fz_in.x = Real(1, 10) /\ fz_in.y = Real(100000000, 1)
    /\ fz_in.z = Real(-100000000, 1)
    /\ fz_out[1].add_xy_z = RealOf(FloatOf(1, <<13107, 102>>, -25))
    /\ fz_out[1].add_x_yz = Real(1, 10)
    /\ ~__eq__(fz_out[1].add_xy_z, fz_out[1].add_x_yz)

\* (2.0 ** -600 * 2.0 ** -600) * MeasZero is 0.0 * MeasZero, AbsZero, and
\* 2.0 ** -600 * (2.0 ** -600 * MeasZero) is MeasZero
C17_Underflow ==
    /\ fz_out # <<>>
    /\ fz_in.x = RealOf(FloatOf(1, <<1>>, -600)) /\ fz_in.y = fz_in.x
    /\ fz_in.z = O_M
    /\ fz_out[1].mul_xy_z = O_BM
    /\ fz_out[1].mul_x_yz = O_M

IsZero(x) == IsReal(x) /\ FloatIsZero(x.v)

IsNonZero(x) == IsReal(x) /\ ~FloatIsZero(x.v)

\* The rows of the division table
DivTable(x, y, q) ==
    /\ IsAbsZero(y) => q = O_BM
    /\ IsResToken(y) => q = x
    /\ (IsMeasZero(x) /\ IsMeasZero(y)) => q = ONE_T
    /\ (IsZero(x) /\ IsZero(y)) => q = O_BM
    /\ (IsNonZero(x) /\ IsMeasZero(y)) => q = O_M
    /\ (IsAbsZero(x) /\ IsMeasZero(y)) => q = O_BM
    /\ (IsMeasZero(x) /\ IsNonZero(y)) => q = O_M
    /\ (IsMeasZero(x) /\ IsZero(y)) => q = O_BM
    /\ (IsResToken(x) /\ IsNonZero(y)) => q = ONE_T
    /\ (IsResToken(x) /\ IsZero(y)) => q = O_BM
    /\ (IsReal(x) /\ IsNonZero(y)) => q = RealOf(FloatDiv(x.v, y.v))
    /\ (IsNonZero(x) /\ IsZero(y)) => q = O_M
    /\ (IsAbsZero(x) /\ IsReal(y)) => q = O_BM

\* C18: div agrees with every row of the division table, and
\* mul(div(MeasZero, MeasZero), MeasZero) = MeasZero.
C18_DivisionTable ==
    fz_out # <<>> =>
        /\ DivTable(fz_in.x, fz_in.y, fz_out[1].div_xy)
        /\ fz_out[1].coherence = O_M

\* C18 witness: Real(0) / Real(0) has given AbsZero
C18_Witness ==
    /\ fz_out # <<>>
    /\ fz_in.x = Real(0, 1) /\ fz_in.y = Real(0, 1)
    /\ fz_out[1].div_xy = O_BM

\* C19: add, mul and div return an element of the algebra for every ordered
\* pair of elements; none of them raises TypeError.
C19_TotalClosed ==
    fz_out # <<>> =>
        \A f \in {"add_xy", "add_yx", "mul_xy", "mul_yx", "div_xy",
                  "add_xy_z", "add_x_yz", "mul_xy_z", "mul_x_yz"} :
            /\ IsElement(fz_out[1][f])
            /\ fz_out[1][f] # TypeError

\* C19 witness: AbsZero / Real, the last rule of div before the raise
C19_Witness ==
    /\ fz_out # <<>>
    /\ fz_in.x = O_BM /\ IsReal(fz_in.y)
    /\ fz_out[1].div_xy = O_BM

(***************************************************************************)
(* Properties of the typed aggregates                                      *)
(***************************************************************************)
\* add folded from the left over a non-empty list
RECURSIVE FoldLeft(_)
FoldLeft(seq) ==
    IF Len(seq) = 1 THEN seq[1] ELSE add(FoldLeft(Front(seq)), Last(seq))

\* count, sum and average as the claim defines them
AggregatesDefined ==
    LET M == fz_in.M
        eligible == SelectSeq(M, LAMBDA x : x # O_BM)
    IN /\ fz_out[1].count = Len(eligible)
       /\ fz_out[1].sum = IF eligible = <<>> THEN O_BM ELSE FoldLeft(eligible)
       /\ fz_out[1].avg =
             IF Len(eligible) = 0 THEN O_BM
             ELSE div(fz_out[1].sum, Real(Len(eligible), 1))

\* C20 as stated: the aggregates are as defined, and replacing any MeasZero
\* entry by AbsZero leaves the sum as it is and lowers the count by one.
C20_AsStated ==
    fz_out # <<>> =>
        /\ AggregatesDefined
        /\ \A i \in DOMAIN fz_out[1].offline :
              /\ fz_out[1].offline[i].sum = fz_out[1].sum
              /\ fz_out[1].offline[i].count = fz_out[1].count - 1

\* C20: the aggregates are as defined; replacing a MeasZero entry by AbsZero
\* lowers the count by one, and leaves the sum as it is when another entry is
\* not AbsZero; when the MeasZero was the only such entry the sum becomes
\* AbsZero.
C20_Aggregates ==
    fz_out # <<>> =>
        /\ AggregatesDefined
        /\ \A i \in DOMAIN fz_out[1].offline :
              /\ fz_out[1].offline[i].count = fz_out[1].count - 1
              /\ fz_out[1].count >= 2 => fz_out[1].offline[i].sum = fz_out[1].sum
              /\ fz_out[1].count = 1 =>
                    /\ fz_out[1].sum = O_M
                    /\ fz_out[1].offline[i].sum = O_BM

\* C20 witness: avg [10, 10, MeasZero] = 20/3 and avg [10, 10, AbsZero] = 10
C20_Witness ==
    /\ fz_out # <<>>
    /\ fz_in.M = <<Real(10, 1), Real(10, 1), O_M>>
    /\ fz_out[1].avg = Real(20, 3)
    /\ fz_out[1].offline[3].avg = Real(10, 1)
    /\ fz_out[1].offline[3].sum = Real(20, 1)

Negated(x) == RealOf(FloatNeg(x.v))

\* Class (a): a MeasZero times two reals that cancel
CancellingUnderMeasZero ==
    /\ fz_in.x = O_M
    /\ IsNonZero(fz_in.y)
    /\ fz_in.z = Negated(fz_in.y)

\* C21 as stated: distributivity fails (a) for MeasZero times two cancelling
\* reals, with AbsZero on the left and MeasZero on the right, and (b) for
\* every Real x other than 1, Real y and z = ResToken.
C21_AsStated ==
    fz_out # <<>> =>
        /\ CancellingUnderMeasZero =>
              fz_out[1].dist_lhs = O_BM /\ fz_out[1].dist_rhs = O_M
        /\ (/\ IsReal(fz_in.x) /\ fz_in.x # Real(1, 1)
            /\ IsReal(fz_in.y) /\ fz_in.z = ONE_T) =>
              ~__eq__(fz_out[1].dist_lhs, fz_out[1].dist_rhs)

\* |v| >= 10^-k and |v| <= 10^-k for a float v, 10^-k being the float of the
\* literal 1e-<k>
AtLeast(v, k) == FloatLeq(FloatDiv(FloatOfInt(1), Pow10(k)), FloatAbs(v))

AtMost(v, k) == FloatLeq(FloatAbs(v), FloatDiv(FloatOfInt(1), Pow10(k)))

\* C21: distributivity fails (a) for MeasZero times two nonzero reals whose
\* sum is 0.0, with AbsZero on the left and MeasZero on the right, and (b)
\* for reals x and y and z = ResToken, with x on the left and x * y + x on
\* the right, whenever |y| >= 1e-8 and |x * y| >= 1e-11. In (b) the two sides
\* are equal when x is 0, when y is 0 and when |y| <= 1e-10 and
\* |x| <= 2.0 ** 1000, so that x * y + x is finite.
C21_NonLaws ==
    fz_out # <<>> =>
        /\ CancellingUnderMeasZero =>
              fz_out[1].dist_lhs = O_BM /\ fz_out[1].dist_rhs = O_M
        /\ (IsReal(fz_in.x) /\ IsReal(fz_in.y) /\ fz_in.z = ONE_T) =>
              /\ fz_out[1].dist_lhs = fz_in.x
              /\ fz_out[1].dist_rhs =
                    RealOf(FloatAdd(FloatMul(fz_in.x.v, fz_in.y.v), fz_in.x.v))
              /\ (/\ AtLeast(fz_in.y.v, 8)
                  /\ AtLeast(FloatMul(fz_in.x.v, fz_in.y.v), 11)) =>
                    ~__eq__(fz_out[1].dist_lhs, fz_out[1].dist_rhs)
              /\ (\/ IsZero(fz_in.x)
                  \/ IsZero(fz_in.y)
                  \/ /\ AtMost(fz_in.y.v, 10)
                     /\ FloatLeq(FloatAbs(fz_in.x.v), FloatOf(1, <<1>>, 1000))) =>
                    __eq__(fz_out[1].dist_lhs, fz_out[1].dist_rhs)

\* C21 witness: 5 times 3 + ResToken is 5 and 5 * 3 + 5 * ResToken is 20
C21_Witness ==
    /\ fz_out # <<>>
    /\ fz_in.x = Real(5, 1) /\ fz_in.y = Real(3, 1) /\ fz_in.z = ONE_T
    /\ fz_out[1].dist_lhs = Real(5, 1)
    /\ fz_out[1].dist_rhs = Real(20, 1)
    /\ ~__eq__(fz_out[1].dist_lhs, fz_out[1].dist_rhs)

\* MeasZero times 3 + (-3)
C21_Cancelling ==
    /\ fz_out # <<>>
    /\ fz_in.x = O_M /\ fz_in.y = Real(3, 1) /\ fz_in.z = Real(-3, 1)
    /\ fz_out[1].dist_lhs = O_BM
    /\ fz_out[1].dist_rhs = O_M

\* 5 times 1e-20 + ResToken is 5 and 5 * 1e-20 + 5 * ResToken is 5 too
C21_WithinTolerance ==
    /\ fz_out # <<>>
    /\ fz_in.x = Real(5, 1) /\ fz_in.y = RealOf(FloatDiv(FloatOfInt(1), Pow10(20)))
    /\ fz_in.z = ONE_T
    /\ fz_out[1].dist_lhs = Real(5, 1)
    /\ fz_out[1].dist_rhs = Real(5, 1)

\* The information level of an element
Level(x) ==
    CASE x.t = "AbsZero" -> 0
      [] x.t = "MeasZero" -> 1
      [] x.t = "Real" -> 2
      [] x.t = "ResToken" -> 3

NonDecreasing(levels) == \A i \in 1..(Len(levels) - 1) : levels[i] <= levels[i + 1]

\* C22: for every element s the levels of add(s, t) and of mul(s, t) do not
\* decrease as t goes up the chain AbsZero, MeasZero, ResToken.
C22_Monotone ==
    fz_out # <<>> =>
        /\ NonDecreasing([i \in 1..3 |-> Level(fz_out[1].add_chain[i])])
        /\ NonDecreasing([i \in 1..3 |-> Level(fz_out[1].mul_chain[i])])

\* C22 witness: the chain under a real zero, whose products are AbsZero,
\* AbsZero and the zero itself
C22_Witness ==
    /\ fz_out # <<>>
    /\ fz_in.x = Real(0, 1)
    /\ fz_out[1].mul_chain = <<O_BM, O_BM, Real(0, 1)>>
    /\ fz_out[1].add_chain = <<Real(0, 1), Real(0, 1), ONE_T>>

(***************************************************************************)
(* Properties of the fault aggregator                                      *)
(***************************************************************************)
AggResult == fz_out[1].result

AggEntries == AggResult.subsystem_faults

\* The subsystems that have a fault in the pair results of the call, read
\* from the annotations the call has left on them
FaultingSubsystems ==
    {fz_in.pair_results[i].subsystem :
        i \in {j \in 1..Len(fz_in.pair_results) :
                  fz_in.pair_results[j].status = "FAULT"}}

EntriesOf(s) == {i \in 1..Len(AggEntries) : AggEntries[i].subsystem = s}

\* The fault types the result gives to subsystem s
TypesOf(s) == {AggEntries[i].fault_type : i \in EntriesOf(s)}

\* rule["condition"] on a fault set whose faulting subsystems are F
Fires(rule, F) ==
    CASE rule.name = "valve_causes_sat" -> {"valve", "sat"} \subseteq F
      [] rule.name = "sat_causes_zone" -> {"sat", "zone"} \subseteq F
      [] rule.name = "valve_causes_zone" -> {"valve", "zone"} \subseteq F /\ "sat" \notin F
      [] rule.name = "chw_causes_sat" -> {"chw", "sat"} \subseteq F

FiringRules(F) == {r \in Range(CAUSAL_RULES) : Fires(r, F)}

RuleRoots(F) == {r.root : r \in FiringRules(F)}

RuleCascades(F) == UNION {Range(r.cascades) : r \in FiringRules(F)}

\* C23: whenever a causal rule's condition holds, its root subsystem is
\* ROOT_CAUSE and every subsystem of its cascades is CASCADE, for every set of
\* faulting subsystems.
C23_RulesClassify ==
    fz_out # <<>> =>
        \A r \in FiringRules(FaultingSubsystems) :
            /\ TypesOf(r.root) = {ROOT_CAUSE}
            /\ \A c \in Range(r.cascades) : TypesOf(c) = {CASCADE}

\* What holds of the rules: a root of a firing rule is ROOT_CAUSE, and a
\* cascade of a firing rule is CASCADE unless it is the root of another one
C23_RootsBeforeCascades ==
    fz_out # <<>> =>
        LET F == FaultingSubsystems
        IN /\ \A s \in RuleRoots(F) : TypesOf(s) = {ROOT_CAUSE}
           /\ \A s \in RuleCascades(F) \ RuleRoots(F) : TypesOf(s) = {CASCADE}

\* The direct upstream subsystems of s in the registry of the call
UpSet(s) == Range(UpstreamOf(fz_in.subsystems, s))

RECURSIVE UpClosure(_)
UpClosure(S) ==
    LET next == S \cup UNION {UpSet(x) : x \in S}
    IN IF next = S THEN S ELSE UpClosure(next)

\* The transitive upstream and downstream subsystems of s
Ancestors(s) == UpClosure(UpSet(s))

RegistryIds == {fz_in.subsystems[i].id : i \in 1..Len(fz_in.subsystems)}

Descendants(s) == {d \in RegistryIds : s \in Ancestors(d)}

TopologyType(s, F) ==
    IF Ancestors(s) \cap F # {} THEN CASCADE
    ELSE IF Descendants(s) \cap F # {} THEN ROOT_CAUSE
    ELSE INDEPENDENT

\* C24: a faulting subsystem that no firing rule names is CASCADE if a
\* transitive upstream subsystem is faulting, else ROOT_CAUSE if a transitive
\* downstream subsystem is faulting, else INDEPENDENT.
C24_TopologyFallback ==
    fz_out # <<>> =>
        LET F == FaultingSubsystems
        IN \A s \in F \ (RuleRoots(F) \cup RuleCascades(F)) :
              TypesOf(s) = {TopologyType(s, F)}

\* C24 witness: valve and vav fault and sat between them does not, with an
\* independent gps fault
C24_Witness ==
    /\ fz_out # <<>>
    /\ fz_in.subsystems = SUBSYSTEMS
    /\ FaultingSubsystems = {"valve", "vav", "gps"}
    /\ TypesOf("vav") = {CASCADE}
    /\ TypesOf("valve") = {ROOT_CAUSE}
    /\ TypesOf("gps") = {INDEPENDENT}

NoRepeat(seq) == \A i, j \in 1..Len(seq) : i # j => seq[i] # seq[j]

\* The registries whose upstream relation has a cycle or a self-loop
Cyclic == \E s \in RegistryIds : s \in Ancestors(s)

\* The number of upstream entries of the registry of the call
EdgeCount == Len(UpstreamEdges(fz_in.subsystems))

\* A walk that visits no subsystem twice and makes at most one call more
\* than the registry has upstream entries
BoundedWalk(walk) == NoRepeat(walk.order) /\ walk.calls <= 1 + EdgeCount

\* C25: on every upstream relation, cycles and self-loops included, the call
\* returns exactly one classification for every faulting subsystem, and
\* neither walk visits a subsystem twice in one query.
C25_TerminatesClassifiesAll ==
    fz_out # <<>> =>
        LET F == FaultingSubsystems
        IN /\ \A s \in F : Cardinality(EntriesOf(s)) = 1
           /\ \A i \in 1..Len(AggEntries) :
                 /\ AggEntries[i].subsystem \in F
                 /\ AggEntries[i].fault_type \in FaultType
           /\ \A s \in F :
                 /\ BoundedWalk(fz_out[1].walks[s].upstream)
                 /\ BoundedWalk(fz_out[1].walks[s].downstream)

\* C25 witness: a registry in which imu, baro and gps are each upstream of
\* all three, with all three faulting, on which the upstream walk of a
\* subsystem visits the three once each
C25_Witness ==
    /\ fz_out # <<>>
    /\ Cyclic
    /\ \A s \in Range(RelationIds) : UpSet(s) = Range(RelationIds)
    /\ FaultingSubsystems = Range(RelationIds)
    /\ fz_out[1].walks["imu"].upstream.order = <<"imu", "baro", "gps">>
    /\ fz_out[1].walks["imu"].upstream.calls = 10
    /\ TypesOf("imu") = {CASCADE}

\* A and B are each the only upstream subsystem of the other
PureCycle(A, B) == A # B /\ UpSet(A) = {B} /\ UpSet(B) = {A}

\* C26: in a pure two-node cycle with both subsystems faulting the two are
\* never both ROOT_CAUSE, and at least one is CASCADE.
C26_CycleNotTwoRoots ==
    fz_out # <<>> =>
        LET F == FaultingSubsystems
        IN \A A, B \in F :
              PureCycle(A, B) =>
                 /\ ~(TypesOf(A) = {ROOT_CAUSE} /\ TypesOf(B) = {ROOT_CAUSE})
                 /\ CASCADE \in TypesOf(A) \cup TypesOf(B)

\* What holds of a pure two-node cycle: two faulting members that no firing
\* rule names are both CASCADE
C26_TopologyOnly ==
    fz_out # <<>> =>
        LET F == FaultingSubsystems
        IN \A A, B \in F \ (RuleRoots(F) \cup RuleCascades(F)) :
              PureCycle(A, B) => TypesOf(A) = {CASCADE} /\ TypesOf(B) = {CASCADE}

TopologyPrefix == Str("Likely downstream effect. Investigate upstream first: ")

\* The sequences that list every element of S exactly once
Listings(S) ==
    {f \in [1..Cardinality(S) -> S] : \A i, j \in 1..Cardinality(S) : i # j => f[i] # f[j]}

PriorityOrdered(ids) ==
    \A i \in 1..(Len(ids) - 1) :
        PriorityOf(fz_in.subsystems, ids[i]) <= PriorityOf(fz_in.subsystems, ids[i + 1])

\* The entries classified CASCADE by topology
TopologyCascades ==
    {i \in 1..Len(AggEntries) :
        AggEntries[i].fault_type = CASCADE /\ AggEntries[i].rule_applied = <<>>}

\* C27: the topology cascade message of a subsystem names every distinct
\* faulting ancestor exactly once, in non-decreasing priority.
C27_AncestorsOnceByPriority ==
    fz_out # <<>> =>
        LET F == FaultingSubsystems
        IN \A i \in TopologyCascades :
              \E ids \in Listings(Ancestors(AggEntries[i].subsystem) \cap F) :
                 /\ PriorityOrdered(ids)
                 /\ AggEntries[i].message =
                       TopologyPrefix \o
                       Join([k \in 1..Len(ids) |-> NameOf(fz_in.subsystems, ids[k])])

\* C27 witness: the diamond with all four faulting, where leaf reaches top
\* over mid_a and over mid_b
C27_Witness ==
    /\ fz_out # <<>>
    /\ fz_in.subsystems = DiamondRegistry
    /\ FaultingSubsystems = {"top", "mid_a", "mid_b", "leaf"}
    /\ \E i \in TopologyCascades :
          /\ AggEntries[i].subsystem = "leaf"
          /\ AggEntries[i].message = TopologyPrefix \o Str("Top, MidB, MidA")

\* The tier of a fault type in the output order
Tier(fault_type) ==
    CASE fault_type = ROOT_CAUSE -> 0
      [] fault_type = INDEPENDENT -> 1
      [] fault_type = CASCADE -> 2

\* C28: subsystem_faults has the ROOT_CAUSE entries first, then the
\* INDEPENDENT ones, then the CASCADE ones, each tier in non-decreasing
\* subsystem priority, 99 for an unknown subsystem.
C28_SortedByTierAndPriority ==
    fz_out # <<>> =>
        \A i \in 1..(Len(AggEntries) - 1) :
            LET a == AggEntries[i]
                b == AggEntries[i + 1]
                pa == IF a.subsystem \in RegistryIds
                      THEN PriorityOf(fz_in.subsystems, a.subsystem) ELSE 99
                pb == IF b.subsystem \in RegistryIds
                      THEN PriorityOf(fz_in.subsystems, b.subsystem) ELSE 99
            IN \/ Tier(a.fault_type) < Tier(b.fault_type)
               \/ Tier(a.fault_type) = Tier(b.fault_type) /\ pa <= pb

\* C28 witness: the three tiers, two priorities in the first and an unknown
\* subsystem last in the second
C28_Witness ==
    /\ fz_out # <<>>
    /\ Len(AggEntries) = 6
    /\ [i \in 1..6 |-> AggEntries[i].subsystem]
          = <<"valve", "sat", "gps", "other", "vav", "zone">>
    /\ [i \in 1..6 |-> AggEntries[i].fault_type]
          = <<ROOT_CAUSE, ROOT_CAUSE, INDEPENDENT, INDEPENDENT, CASCADE, CASCADE>>
    /\ fz_in.pair_results[1].group = Str("zone")

\* The first fault of subsystem s in the pair results of the call, as the
\* call has annotated it
PrimaryOf(s) ==
    Head(SelectSeq(fz_in.pair_results, LAMBDA p :
            p.status = "FAULT" /\ p.subsystem = s))

\* The messages that explain a cascade of subsystem s
CascadeExplanations(s) ==
    {r.message : r \in {q \in Range(CAUSAL_RULES) : s \in Range(q.cascades)}}
      \cup {m \in {AggEntries[i].message : i \in EntriesOf(s)} :
               /\ Len(m) > Len(TopologyPrefix)
               /\ SubSeq(m, 1, Len(TopologyPrefix)) = TopologyPrefix}

\* C29: a CASCADE entry has the subsystem's own message of its primary fault
\* in details_message and the cascade explanation in message; a ROOT_CAUSE or
\* INDEPENDENT entry has details_message "" and its own message in message.
C29_DetailsMessage ==
    fz_out # <<>> =>
        \A e \in Range(AggEntries) :
            \A own \in {PrimaryOf(e.subsystem).human_message} :
               IF e.fault_type = CASCADE
               THEN /\ e.details_message = own
                    /\ e.message \in CascadeExplanations(e.subsystem)
                    /\ e.message # own
               ELSE e.details_message = <<>> /\ e.message = own

\* C29 witness: a rule cascade, a topology cascade and a root cause, each
\* fault with a message of its own
C29_Witness ==
    /\ fz_out # <<>>
    /\ Len(AggEntries) = 3
    /\ AggEntries[1].subsystem = "valve"
    /\ AggEntries[1].message = Str("VLV-01 stuck closed (commanding 95% but at 5%)")
    /\ AggEntries[1].details_message = <<>>
    /\ AggEntries[2].subsystem = "sat"
    /\ AggEntries[2].message = Str("Supply Air Temperature deviation due to valve mismatch")
    /\ AggEntries[2].details_message = Str("Supply air too warm (80.0") \o <<"U+00B0", "F">>
              \o Str(" vs setpoint 72.0") \o <<"U+00B0", "F">> \o Str(")")
    /\ AggEntries[3].subsystem = "vav"
    /\ AggEntries[3].message = TopologyPrefix \o Str("Valve/Actuator, Supply Air Temperature")
    /\ AggEntries[3].details_message = Str("VAV-01: deviation of 8.0") \o <<"U+00B0", "F">>

(***************************************************************************)
(* Properties of the worker                                                *)
(***************************************************************************)
\* Two update() calls for one building between their query and their commit
TwoInFlight ==
    \E w1, w2 \in Workers :
        /\ w1 # w2
        /\ in_flight[w1].pc = "loaded" /\ in_flight[w2].pc = "loaded"
        /\ in_flight[w1].building_id = in_flight[w2].building_id

\* Two AlertEvents of one fault key less than the cooldown apart: two
\* events of one incident
DuplicateAlert ==
    \E i, j \in 1..Len(alert_events) :
        /\ i < j
        /\ alert_events[i].fault_key = alert_events[j].fault_key
        /\ Abs(alert_events[j].created_at - alert_events[i].created_at)
              < COOLDOWN_SECONDS

\* C30: at most one update() read-modify-write is in flight for a building
\* at any time, so two jobs of the building never both read the same streak
\* of a fault key and both emit an AlertEvent for the same incident.
C30_SingleWriterPerBuilding == ~TwoInFlight /\ ~DuplicateAlert

\* The consequence alone: no two events of one incident
C30_NoDuplicateAlert == ~DuplicateAlert

(***************************************************************************)
(* Properties of the causal rules' bookkeeping                             *)
(***************************************************************************)
\* The positions in CAUSAL_RULES of the firing rules that name c as cascade
NamingRules(c, F) ==
    {i \in 1..Len(CAUSAL_RULES) :
        Fires(CAUSAL_RULES[i], F) /\ c \in Range(CAUSAL_RULES[i].cascades)}

\* The entries of the rule cascades are those of rule at(naming positions)
RecordedRuleIs(at(_)) ==
    fz_out # <<>> =>
        LET F == FaultingSubsystems
        IN \A c \in RuleCascades(F) \ RuleRoots(F) :
              \A e \in EntriesOf(c) :
                  LET rule == CAUSAL_RULES[at(NamingRules(c, F))]
                  IN /\ AggEntries[e].rule_applied = <<rule.name>>
                     /\ AggEntries[e].message = rule.message

MinOf(S) == CHOOSE i \in S : \A j \in S : i <= j

MaxOf(S) == CHOOSE i \in S : \A j \in S : j <= i

\* C31: when more than one firing rule names the same cascade subsystem, the
\* rule recorded for it (rule_applied and the cascade message) is the first
\* firing rule in CAUSAL_RULES order.
C31_FirstMatch == RecordedRuleIs(MinOf)

\* What the loop does: the last firing rule naming the cascade is recorded
C31_LastMatch == RecordedRuleIs(MaxOf)

\* Two firing rules name sat as their cascade
C31_TwoRulesOneCascade ==
    /\ fz_out # <<>>
    /\ Cardinality(NamingRules("sat", FaultingSubsystems)) = 2
    /\ "sat" \notin RuleRoots(FaultingSubsystems)
    /\ EntriesOf("sat") # {}

(***************************************************************************)
(* Properties of the windowed decider's priority order                     *)
(***************************************************************************)
\* FAILOVER > INCONSISTENT > DEGRADED > REDUCED
EscalationOrder == <<"FAILOVER", "INCONSISTENT", "DEGRADED", "REDUCED">>

\* The non-OK modes whose trailing run in the history meets their threshold
MetModes(hist, params) ==
    {mode \in NonOkModes : _consecutive_suffix(hist, mode) >= Threshold(params, mode)}

\* The mode of M that comes first in EscalationOrder
HighestOf(M) ==
    EscalationOrder[CHOOSE i \in 1..4 :
        /\ EscalationOrder[i] \in M
        /\ \A j \in 1..(i - 1) : EscalationOrder[j] \notin M]

ThresholdsPositive(params) ==
    \A mode \in NonOkModes \cup {"OK"} : Threshold(params, mode) >= 1

PriorityStep ==
    LET met == MetModes(HistoryOf(win_state'), win_params)
    IN /\ met # {} => StableOf(win_state') = HighestOf(met)
       /\ ThresholdsPositive(win_params) =>
             /\ Cardinality({mode \in Modes :
                    _consecutive_suffix(HistoryOf(win_state'), mode) > 0}) <= 1
             /\ StableOf(win_state')
                   \in {StableOf(win_state), Last(HistoryOf(win_state'))}

\* C32: update checks the escalation thresholds in the order FAILOVER >
\* INCONSISTENT > DEGRADED > REDUCED: when the trailing runs of several modes
\* meet their thresholds at one update the stable mode becomes the
\* highest-priority one among them; with thresholds >= 1 at most one mode has
\* a non-zero trailing run, and the stable mode after an update is the
\* previous stable mode or the raw mode of the tick.
C32_PriorityOrder == [][UpdateStep => PriorityStep]_vars

\* INCONSISTENT and DEGRADED both meet their thresholds after an update (the
\* raw mode is DEGRADED, the threshold of INCONSISTENT is 0) and the stable
\* mode is INCONSISTENT
C32_Witness ==
    /\ win_out # <<>>
    /\ {"INCONSISTENT", "DEGRADED"} \subseteq MetModes(HistoryOf(win_state), win_params)
    /\ "FAILOVER" \notin MetModes(HistoryOf(win_state), win_params)
    /\ win_out[1].base_group_mode = "DEGRADED"
    /\ win_out[1].stable_group_mode = "INCONSISTENT"

(***************************************************************************)
(* Properties of temporal_fuse                                             *)
(***************************************************************************)
\* (1 - alpha) * p for a Real previous
Retained(previous, alpha) ==
    RealOf(FloatMul(FloatSub(FloatOfInt(1), alpha.v), previous.v))

\* C33: temporal_fuse never lets a non-value overwrite a known one: for alpha
\* in [0, 1], with previous Real(p) and current MeasZero or AbsZero the result
\* is the Real (1 - alpha) * p; with both MeasZero it is MeasZero and with
\* both AbsZero it is AbsZero.
C33_TemporalFuseKeepsKnown ==
    fz_out # <<>> =>
        /\ (IsReal(fz_in.previous) /\ (IsMeasZero(fz_in.current) \/ IsAbsZero(fz_in.current)))
              => fz_out[1] = Retained(fz_in.previous, fz_in.alpha)
        /\ (IsMeasZero(fz_in.previous) /\ IsMeasZero(fz_in.current)) => fz_out[1] = O_M
        /\ (IsAbsZero(fz_in.previous) /\ IsAbsZero(fz_in.current)) => fz_out[1] = O_BM

\* temporal_fuse(0_m, Real(2), 0.7) has returned a Real equal to Real(0.6),
\* whose value is the float after 0.6
C33_Witness ==
    /\ fz_out # <<>>
    /\ fz_in.current = O_M /\ fz_in.previous = Real(2, 1) /\ fz_in.alpha = Real(7, 10)
    /\ __eq__(fz_out[1], Real(3, 5))
    /\ FloatLess(Real(3, 5).v, fz_out[1].v)

(***************************************************************************)
(* Properties of decide_group                                              *)
(***************************************************************************)
\* The sensors of the group the mapping has a reading for, in group order
Matched == SelectSeq(fz_in.group.sensors, LAMBDA sid : sid \in DOMAIN fz_in.typed_by_sensor)

\* C34: decide_group never raises on an unmatched sensor: the sensor ids of
\* the group that are not keys of the mapping are left out of the fused
\* readings, and when none of the group's sensors is in the mapping the result
\* has total_count 0, eligible_count 0, fused value AbsZero and mode FAILOVER.
C34_UnmatchedLeftOut ==
    fz_out # <<>> =>
        LET out == fz_out[1]
            matched == Matched
            values == [i \in 1..Len(matched) |-> fz_in.typed_by_sensor[matched[i]].s]
        IN /\ out.group_mode \in Modes
           /\ out.total_count = Len(matched)
           /\ [i \in 1..Len(out.sensor_alerts) |-> out.sensor_alerts[i].sensor_id] = matched
           /\ out.eligible_count = count_s(values)
           /\ out.fused_value = avg_s(values)
           /\ \A i \in 1..Len(out.pairwise) :
                 {out.pairwise[i].sensor_a, out.pairwise[i].sensor_b} \subseteq Range(matched)
           /\ matched = <<>> =>
                 /\ out.total_count = 0 /\ out.eligible_count = 0
                 /\ out.fused_value = O_BM /\ out.group_mode = "FAILOVER"

\* The mapping has readings, but for none of the group's sensors, and the
\* group requires no eligible sensor: the result is FAILOVER on no reading
C34_Witness ==
    /\ fz_out # <<>>
    /\ Matched = <<>>
    /\ DOMAIN fz_in.typed_by_sensor = {"c", "z"}
    /\ fz_in.group.required_eligible = 0
    /\ fz_out[1].group_mode = "FAILOVER" /\ fz_out[1].total_count = 0

\* One sensor of the group is matched, one is not
C34_PartlyMatched ==
    /\ fz_out # <<>>
    /\ Matched = <<"b">>
    /\ fz_in.group.sensors = <<"a", "b", "c">>
    /\ fz_out[1].total_count = 1

(***************************************************************************)
(* Properties of the cooldown                                              *)
(***************************************************************************)
\* second.created_at - first.created_at in seconds, as the subtraction of
\* alert_engine.py:178 gives it: the two are parsed, and an offset-aware and
\* a naive datetime have no difference (TypeError)
SecondsBetween(first, second) ==
    IF Subtractable(parse_iso(second.created_at), parse_iso(first.created_at))
    THEN parse_iso(second.created_at).t - parse_iso(first.created_at).t
    ELSE "TypeError"

\* Events i and j are of one key and their created_at can be subtracted
Comparable(i, j) ==
    /\ alert_events[i].fault_key = alert_events[j].fault_key
    /\ parse_iso(alert_events[i].created_at).ok
    /\ parse_iso(alert_events[j].created_at).ok
    /\ Subtractable(parse_iso(alert_events[j].created_at),
                    parse_iso(alert_events[i].created_at))

\* The events of the key of event i all have a created_at that parses, all
\* with an offset or all without
SameKindOfTimestamps(i) ==
    \A j, k \in 1..Len(alert_events) :
        (alert_events[j].fault_key = alert_events[i].fault_key
         /\ alert_events[k].fault_key = alert_events[i].fault_key) =>
            /\ parse_iso(alert_events[j].created_at).ok
            /\ Subtractable(parse_iso(alert_events[j].created_at),
                            parse_iso(alert_events[k].created_at))

\* C35: over update cycles with parseable, non-decreasing timestamps, any
\* two AlertEvents of one fault_key have created_at at least
\* COOLDOWN_SECONDS apart. The cycles are those of SpecOrdered; the
\* distance is asked of the pairs of events that have one, those whose
\* created_at both carry an offset or both carry none.
C35_CooldownSpacing ==
    \A i, j \in 1..Len(alert_events) :
        (i < j /\ Comparable(i, j)) =>
            SecondsBetween(alert_events[i], alert_events[j]) >= COOLDOWN_SECONDS

\* The same of the keys whose events all have timestamps of one kind
C35_OneKindSpacing ==
    \A i, j \in 1..Len(alert_events) :
        (/\ i < j
         /\ alert_events[i].fault_key = alert_events[j].fault_key
         /\ SameKindOfTimestamps(i)) =>
            SecondsBetween(alert_events[i], alert_events[j]) >= COOLDOWN_SECONDS

\* Three events of one key: at second 0 with an offset, at second
\* COOLDOWN_SECONDS \div 2 without one and at that second with one. Both
\* later cooldown checks raised TypeError and the emit was not skipped.
C35_HalfWindowApart ==
    /\ Len(alert_events) = 3
    /\ \A i \in 1..3 : alert_events[i].fault_key = alert_events[1].fault_key
    /\ alert_events[1].created_at = 0
    /\ alert_events[2].created_at = Naive(COOLDOWN_SECONDS \div 2)
    /\ alert_events[3].created_at = COOLDOWN_SECONDS \div 2

\* Two events of one key, the second COOLDOWN_SECONDS after the first
C35_FullWindowApart ==
    /\ Len(alert_events) = 2
    /\ alert_events[1].fault_key = alert_events[2].fault_key
    /\ alert_events[1].created_at = 0
    /\ alert_events[2].created_at = COOLDOWN_SECONDS

\* A reconfirmation inside the window has been skipped: one event, and the
\* key confirmed again after it was cleared
C35_Skipped ==
    /\ Len(alert_events) = 1
    /\ suppressed # {}

\* A suppressed key (one whose confirmation took the cooldown branch and
\* whose absent_streak has not reached CLEAR_AFTER since) is confirmed and
\* gets no event; an event is for a key not suppressed, on a run of
\* CONFIRM_AFTER present cycles that ends outside the window
SilentStep ==
    /\ \A key \in suppressed : Emitted(key) = 0 /\ Returned(key) = 0
    /\ \A key \in suppressed' : RowOf(alert_state', key).confirmed
    /\ \A key \in AllKeys :
          Emitted(key) > 0 =>
              /\ key \notin suppressed
              /\ RowOf(alert_state', key).present_streak >= CONFIRM_AFTER
              /\ ~InCooldown(RowOf(alert_state, key).last_alerted_at, call'.now)

\* C36: once a key is marked confirmed without an event because of the
\* cooldown, no AlertEvent is emitted for it while the fault stays present,
\* even after the cooldown window has expired; a further event requires
\* CLEAR_AFTER consecutive absent cycles and then CONFIRM_AFTER consecutive
\* present cycles ending outside the window. The cycles are those of the
\* building's rows: delete_building ends every incident of the building.
C36_SuppressedStaysSilent == [][Called => SilentStep]_vars

\* A suppressed key is still present COOLDOWN_SECONDS after its last alert,
\* one cycle after the skipped confirmation, and has its one event only
C36_Witness ==
    \E key \in suppressed :
        /\ RowOf(alert_state, key).confirmed
        /\ RowOf(alert_state, key).present_streak = CONFIRM_AFTER + 1
        /\ RowOf(alert_state, key).last_alerted_at = 0
        /\ RowOf(alert_state, key).last_seen_at = COOLDOWN_SECONDS
        /\ EventCount(alert_events, key) = 1

(***************************************************************************)
(* Properties of fuse_group under reordering                               *)
(***************************************************************************)
\* C37: the group mode returned by fuse_group does not depend on the order
\* of the readings: every permutation of the list yields the same mode.
C37_ModeOrderIndependent ==
    fz_out # <<>> =>
        \A p, q \in DOMAIN fz_out[1] : fz_out[1][p].group_mode = fz_out[1][q].group_mode

\* What does not depend on the order: the counts, the fused value and the
\* alert of each sensor
C37_AggregatesOrderIndependent ==
    fz_out # <<>> =>
        \A p, q \in DOMAIN fz_out[1] :
            /\ fz_out[1][p].eligible_count = fz_out[1][q].eligible_count
            /\ fz_out[1][p].total_count = fz_out[1][q].total_count
            /\ fz_out[1][p].fused_value = fz_out[1][q].fused_value
            /\ Range(fz_out[1][p].sensor_alerts) = Range(fz_out[1][q].sensor_alerts)

\* Real(10) before Real(0) is DEGRADED, Real(0) before Real(10) is not
C37_OrderChangesMode ==
    /\ fz_out # <<>>
    /\ fz_in.readings = <<Real(10, 1), Real(0, 1)>>
    /\ fz_in.optional_sensors = {} /\ fz_in.required_eligible = 2
    /\ fz_out[1][<<1, 2>>].group_mode = "DEGRADED"
    /\ fz_out[1][<<2, 1>>].group_mode \in {"INCONSISTENT", "OK"}

(***************************************************************************)
(* Properties of the displacement of a stable mode                         *)
(***************************************************************************)
Displacement ==
    StableOf(win_state) \in NonOkModes =>
        /\ \A mode \in NonOkModes \ {StableOf(win_state)} :
              RawRunMet(win_raw', win_params, mode) => StableOf(win_state') = mode
        /\ (NoEscalation(win_raw', win_params)
            /\ ~RawRunMet(win_raw', win_params, "OK")) =>
               StableOf(win_state') = StableOf(win_state)

\* C38: a stable non-OK mode is displaced by any other non-OK mode whose
\* trailing run of raw modes reaches its threshold, whatever the severity of
\* the two and with no OK streak (stable FAILOVER and reduced_k REDUCED raw
\* ticks give REDUCED); while no other mode's threshold and no OK recovery
\* streak is met it stays as it is.
C38_DisplacedByAnyMode == [][UpdateStep => Displacement]_vars

\* C38 for the parameters whose thresholds are within the capacity of the
\* history
C38_WithinCapacity == [][(UpdateStep /\ WithinCapacity(win_params)) => Displacement]_vars

\* The stable mode is REDUCED after two REDUCED raw ticks, with the
\* thresholds of REDUCED and FAILOVER at 2 and 1: FAILOVER has been displaced
C38_Displaced ==
    /\ win_params # <<>> /\ win_out # <<>>
    /\ win_params.reduced_k = 2 /\ win_params.failover_k = 1
    /\ win_raw = <<"REDUCED", "REDUCED">>
    /\ Len(HistoryOf(win_state)) = 3
    /\ HistoryOf(win_state)[1] = "FAILOVER"
    /\ StableOf(win_state) = "REDUCED"

(***************************************************************************)
(* Properties of the aggregator's output as the alert engine reads it      *)
(***************************************************************************)
EntriesOfType(t) == {i \in 1..Len(AggEntries) : AggEntries[i].fault_type = t}

\* C39: with the built-in subsystem registry and causal rules, for every set
\* of faulting subsystems, an output of aggregate_faults that has a CASCADE
\* subsystem has a ROOT_CAUSE subsystem too, which is what update() tracks.
C39_CascadeHasRoot ==
    (fz_out # <<>> /\ fz_in.subsystems = SUBSYSTEMS) =>
        /\ EntriesOfType(CASCADE) # {} => EntriesOfType(ROOT_CAUSE) # {}
        /\ AggResult.cascades > 0 => AggResult.root_causes > 0
        /\ EntriesOfType(CASCADE) # {} =>
              root_faults([i \in 1..Len(AggEntries) |->
                              [fault_type |-> AggEntries[i].fault_type]]) # <<>>

\* sat and vav fault, which no causal rule covers: vav is CASCADE and sat is
\* the ROOT_CAUSE presented
C39_Witness ==
    /\ fz_out # <<>>
    /\ fz_in.subsystems = SUBSYSTEMS
    /\ FaultingSubsystems = {"sat", "vav"}
    /\ TypesOf("vav") = {CASCADE}
    /\ TypesOf("sat") = {ROOT_CAUSE}

\* Outside the built-in registry: on a cycle every entry can be CASCADE
C39_AnyRegistry ==
    fz_out # <<>> => (EntriesOfType(CASCADE) # {} => EntriesOfType(ROOT_CAUSE) # {})

\* ---------------------------------------------------------------------
\* C40: the distributivity failures
\* ---------------------------------------------------------------------

\* Class (b): a Real times a sum containing ResToken
RealOverResToken ==
    /\ IsReal(fz_in.x)
    /\ fz_in.y = ONE_T \/ fz_in.z = ONE_T

\* C40: every triple outside class (a), a MeasZero times two cancelling
\* reals, and class (b), a Real times a sum containing ResToken, satisfies
\* mul(x, add(y, z)) = add(mul(x, y), mul(x, z)), the two sides being equal
\* as elements are (==).
C40_OnlyFailures ==
    (fz_out # <<>> /\ ~CancellingUnderMeasZero /\ ~RealOverResToken) =>
        __eq__(fz_out[1].dist_lhs, fz_out[1].dist_rhs)

\* The same of the triples of distributivity's own elements: the tokens and
\* the integers from -3 to 3 and 5, whose sums and products are exact,
\* other than a MeasZero times the sum of Real(0) and MeasZero
ExactElements ==
    {O_BM, O_M, ONE_T, Real(5, 1)} \cup {Real(n, 1) : n \in -3..3}

C40_OnExactElements ==
    (/\ fz_out # <<>>
     /\ {fz_in.x, fz_in.y, fz_in.z} \subseteq ExactElements
     /\ ~CancellingUnderMeasZero
     /\ ~RealOverResToken
     /\ ~(fz_in.x = O_M /\ {fz_in.y, fz_in.z} = {Real(0, 1), O_M})) =>
        __eq__(fz_out[1].dist_lhs, fz_out[1].dist_rhs)

\* MeasZero times MeasZero + 2 is distributive, both sides MeasZero
C40_Witness ==
    /\ fz_out # <<>>
    /\ fz_in.x = O_M /\ fz_in.y = O_M /\ fz_in.z = Real(2, 1)
    /\ fz_out[1].dist_lhs = O_M
    /\ fz_out[1].dist_rhs = O_M

\* MeasZero times 0 + MeasZero is AbsZero, and MeasZero * 0 + MeasZero *
\* MeasZero is MeasZero
C40_ThirdClass ==
    /\ fz_out # <<>>
    /\ fz_in.x = O_M /\ fz_in.y = Real(0, 1) /\ fz_in.z = O_M
    /\ fz_out[1].dist_lhs = O_BM
    /\ fz_out[1].dist_rhs = O_M

\* 3 times 1e16 + -9999999999999998.0 is 6, and 3 * 1e16 +
\* 3 * -9999999999999998.0 is 8: the second product is rounded to
\* -29999999999999992.0
C40_RoundedProduct ==
    /\ fz_out # <<>>
    /\ fz_in.x = Real(3, 1) /\ fz_in.y = RealOf(Pow10(16))
    /\ fz_in.z = RealOf(FloatNeg(FloatSub(Pow10(16), FloatOfInt(2))))
    /\ fz_out[1].dist_lhs = Real(6, 1)
    /\ fz_out[1].dist_rhs = Real(8, 1)

====
